---- MODULE Spec2Model ----
(***************************************************************************)
(* A model of LogtoClient (src/unnamed/part_002): the OAuth2/OIDC          *)
(* authorization-code client with its storage slots, the access-token     *)
(* cache, the map of in-flight refreshes, the once-memoized discovery      *)
(* fetch and the asynchronous operations signIn, handleSignInCallback,     *)
(* getAccessToken and signOut.                                             *)
(*                                                                         *)
(* Every call of an asynchronous operation is a task.  A task's start      *)
(* action runs the code up to its first await; every further action of    *)
(* the task runs from one await to the next.  JavaScript runs one such     *)
(* segment at a time, so each segment is one atomic action.                *)
(*                                                                         *)
(* Time is counted in half seconds, so that Math.round(Date.now() / 1000)  *)
(* is not the identity.                                                    *)
(***************************************************************************)
EXTENDS Integers, Sequences, FiniteSets, TLC

\* ---------------------------------------------------------------- bounds
\* The calls made of getAccessToken alone (SpecRefresh) and of any operations (Spec).
MaxTasks == 3
MaxCalls == 2
\* The last half second the clock reaches.
MaxTime == 2

\* ------------------------------------------------------------ value sets
NULL == 0
Tasks == 1..MaxTasks
\* A value already in storage when the client is constructed.
Preloaded == MaxTasks + 1
NoResource == ""
Resources == {NoResource, "a"}
RedirectUris == {"cb1", "cb2"}
ExpiresIns == {1}

VARIABLES
    logtoConfig,               \* LogtoClient.logtoConfig, as the constructor left it
    now,                       \* Date.now(), in half seconds
    storage,                   \* the Storage adapter: idToken, refreshToken, signInSession
    idToken,                   \* LogtoClient._idToken
    accessTokenMap,            \* LogtoClient.accessTokenMap
    getAccessTokenPromiseMap,  \* LogtoClient.getAccessTokenPromiseMap
    refresh,                   \* the promises made by getAccessTokenByRefreshToken
    oidc,                      \* once(_getOidcConfig): its promise and the fetches made
    jwks,                      \* once(_getJwtVerifyGetKey): the key sets created
    task,                      \* the calls of the asynchronous operations
    requests,                  \* requests sent to the token and revocation endpoints
    redirects                  \* the URLs handed to handleRedirect

vars == <<logtoConfig, now, storage, idToken, accessTokenMap, getAccessTokenPromiseMap, refresh,
          oidc, jwks, task, requests, redirects>>

\* ---------------------------------------------------------------- values
NoEntry == [token |-> NULL, expiresAt |-> 0]

NoRet == [st |-> "none", value |-> NULL, code |-> "", cause |-> ""]
Ok(v) == [st |-> "ok", value |-> v, code |-> "", cause |-> ""]
\* new LogtoClientError(code, cause) / new LogtoError(code) / a requester error
Err(code, cause) == [st |-> "err", value |-> NULL, code |-> code, cause |-> cause]

NoUrl == [base |-> "", code |-> NULL, state |-> NULL, error |-> NULL]
NoResp == [accessToken |-> NULL, refreshToken |-> NULL, idToken |-> NULL, expiresIn |-> 0]

NoItem == [redirectUri |-> "", codeVerifier |-> NULL, state |-> NULL]

\* LogtoContext: { isAuthenticated, claims?, accessToken? }, isAuthenticated as 1
\* or 0 and an absent field as NULL; this one is { isAuthenticated: false }.
NoContext == [isAuthenticated |-> 0, claims |-> NULL, accessToken |-> NULL]

\* A call: its operation and arguments, where it is suspended, the values it holds
\* across its awaits, and how it settled.  pre, bare, live and evicted record how
\* a getAccessToken call started: with tokens stored and nothing valid cached, the
\* same with no refresh token stored, on a promise that was not yet settled, and by
\* deleting an expired cache entry.  revoked records how the revocation request of
\* a signOut call ended, cached the access tokens that were in the cache when a
\* signIn call was made, and ctx is the LogtoContext a getContext call builds.
IdleTask == [op |-> "none", pc |-> "idle", resource |-> NoResource, url |-> NoUrl,
             sess |-> NoItem, wait |-> NULL, resp |-> NoResp, ret |-> NoRet,
             pre |-> FALSE, bare |-> FALSE, live |-> FALSE, evicted |-> FALSE,
             revoked |-> "", cached |-> {}, ctx |-> NoContext]

\* The call settles: what it held across its awaits is dropped.
Done(tk, r) == [tk EXCEPT !.pc = "done", !.ret = r, !.resp = NoResp]

NoRedirect == [kind |-> "", redirectUri |-> "", state |-> NULL, codeChallenge |-> NULL,
               idTokenHint |-> NULL, postLogoutRedirectUri |-> "", params |-> <<>>]

NoRefresh == [st |-> "none", resource |-> NoResource, ret |-> NoRet, idToken |-> NULL]

NoRequest == [grant |-> "", by |-> NULL, refreshToken |-> NULL, resource |-> NoResource,
              scopes |-> <<>>, code |-> NULL, redirectUri |-> "", codeVerifier |-> NULL]

\* Math.round(Date.now() / 1000): seconds, from half seconds (round half up)
RoundSec(h) == (h + 1) \div 2

\* buildAccessTokenKey(resource): `${scopes.join(' ')}@${resource}`, no scopes given
buildAccessTokenKey(resource) == <<"@", resource>>
Keys == {buildAccessTokenKey(r) : r \in Resources}

\* ------------------------------------------------------------ LogtoConfig
\* The most scopes a caller gives.
MaxScopes == 2

\* A text is the list of its pieces between single spaces; a scope has no space
\* in it and is one piece: "foo" is <<"foo">>.
ScopeTexts == {<<"openid">>, <<"profile">>, <<"foo">>, <<"bar">>}
ScopeLists == UNION {[1..n -> ScopeTexts] : n \in 0..MaxScopes}
ResourceLists == {<<>>, <<"a">>, <<"a", "b">>, <<"b", "a">>}
\* "" is no prompt configured.
Prompts == {"", "login"}

\* The configurations given to the constructor; no scopes given is <<>>.
Configs == [appId : {"foo"}, scopes : ScopeLists, resources : ResourceLists,
            prompt : Prompts]
DefaultConfig == [appId |-> "foo", scopes |-> <<>>, resources |-> <<>>, prompt |-> ""]

ReservedScope == << <<"openid">>, <<"offline_access">>, <<"profile">> >>

\* Array.from(new Set(list)): the first occurrence of each member, in order
RECURSIVE Unique(_)
Unique(list) ==
    IF list = <<>> THEN <<>>
    ELSE LET init == Unique(SubSeq(list, 1, Len(list) - 1))
             last == list[Len(list)]
         IN IF \E i \in 1..Len(init) : init[i] = last THEN init ELSE Append(init, last)

\* texts.join(' '): the pieces of the texts, in order
RECURSIVE JoinSpace(_)
JoinSpace(texts) ==
    IF texts = <<>> THEN <<>> ELSE Head(texts) \o JoinSpace(Tail(texts))

\* text.split(' '): every piece is a text
SplitSpace(text) == [i \in 1..Len(text) |-> <<text[i]>>]

\* withReservedScopes(scopes): the reserved scopes and then the caller's, each
\* once, joined by spaces
withReservedScopes(scopes) == JoinSpace(Unique(ReservedScope \o scopes))

\* A constructor that keeps the scopes as the caller gave them.
constructorKeepsScopes(config) ==
    [config EXCEPT !.prompt = IF config.prompt = "" THEN "consent" ELSE config.prompt]

\* The configuration the constructor keeps: the prompt defaults to consent and
\* the scopes are withReservedScopes(scopes).split(' ').
constructor(config) ==
    [config EXCEPT !.prompt = IF config.prompt = "" THEN "consent" ELSE config.prompt,
                   !.scopes = SplitSpace(withReservedScopes(config.scopes))]

\* ------------------------------------------------------- sign-in session
\* JSON.stringify(logtoSignInSessionItem): the text, as its members in order
JsonStringify(item) ==
    << <<"redirectUri", item.redirectUri>>,
       <<"codeVerifier", item.codeVerifier>>,
       <<"state", item.state>> >>

JsonHas(json, key) == \E i \in 1..Len(json) : json[i][1] = key
JsonGet(json, key) == json[CHOOSE i \in 1..Len(json) : json[i][1] = key][2]

\* assert(item, LogtoSignInSessionItemSchema): the three members are there
SchemaOk(json) ==
    JsonHas(json, "redirectUri") /\ JsonHas(json, "codeVerifier") /\ JsonHas(json, "state")

\* A stored text that JSON.parse rejects.
NotJson == << <<"{", NULL>> >>
JsonParses(json) == \A i \in 1..Len(json) : json[i][1] # "{"

\* A getter that takes a malformed session for no session.
signInSessionGetLenient(jsonItem) ==
    IF jsonItem # <<>> /\ SchemaOk(jsonItem)
    THEN [kind |-> "item", cause |-> "",
          item |-> [redirectUri |-> JsonGet(jsonItem, "redirectUri"),
                    codeVerifier |-> JsonGet(jsonItem, "codeVerifier"),
                    state |-> JsonGet(jsonItem, "state")]]
    ELSE [kind |-> "null", item |-> NoItem, cause |-> ""]

\* get signInSession(): null, the item, or throws sign_in_session.invalid with the
\* error of JSON.parse or of assert as its cause
signInSessionGet(jsonItem) ==
    IF jsonItem = <<>> THEN [kind |-> "null", item |-> NoItem, cause |-> ""]
    ELSE IF ~JsonParses(jsonItem)
         THEN [kind |-> "invalid", item |-> NoItem, cause |-> "SyntaxError"]
    ELSE IF SchemaOk(jsonItem)
         THEN [kind |-> "item", cause |-> "",
               item |-> [redirectUri |-> JsonGet(jsonItem, "redirectUri"),
                         codeVerifier |-> JsonGet(jsonItem, "codeVerifier"),
                         state |-> JsonGet(jsonItem, "state")]]
         ELSE [kind |-> "invalid", item |-> NoItem, cause |-> "StructError"]

PreloadedSession ==
    JsonStringify([redirectUri |-> "cb1", codeVerifier |-> Preloaded, state |-> Preloaded])
\* A stored session without its state.
MalformedSession == << <<"redirectUri", "cb1">>, <<"codeVerifier", Preloaded>> >>

\* ------------------------------------------------------------------ init
Init ==
    /\ logtoConfig = constructor(DefaultConfig)
    /\ now = 0
    /\ \E it \in {NULL, Preloaded}, rt \in {NULL, Preloaded},
          ss \in {<<>>, PreloadedSession, MalformedSession} :
          /\ storage = [idToken |-> it, refreshToken |-> rt, signInSession |-> ss]
          /\ idToken = it
    /\ accessTokenMap = [k \in Keys |-> NoEntry]
    /\ getAccessTokenPromiseMap = [k \in Keys |-> NULL]
    /\ refresh = [t \in Tasks |-> NoRefresh]
    /\ oidc = [st |-> "none", fetches |-> 0]
    /\ jwks = [called |-> FALSE, created |-> 0]
    /\ task = [t \in Tasks |-> IdleTask]
    /\ requests = {}
    /\ redirects = <<>>

\* Tasks are taken in order: task t starts once the tasks before it have.
CanStart(t) ==
    /\ task[t].pc = "idle"
    /\ \A u \in Tasks : u < t => task[u].pc # "idle"

\* A cache that still hands out an entry at the moment it expires.
CachedValidInclusive(at) == at # NoEntry /\ at.expiresAt >= now

\* accessToken && accessToken.expiresAt > Date.now() / 1000
CachedValid(at) == at # NoEntry /\ at.expiresAt > now

Settled(p) == refresh[p].st \in {"resolved", "rejected"}

\* ---------------------------------------------------------- environment
\* A call waits on a promise that is settled already: its continuation is a
\* microtask, which runs before any time passes.
ContinuationPending ==
    \E t \in Tasks :
        \/ task[t].pc = "await" /\ Settled(t)
        \/ task[t].pc = "join" /\ Settled(task[t].wait)
        \/ task[t].pc \in {"si_config", "cb_config", "so_config"}
              /\ oidc.st \in {"resolved", "rejected"}
        \/ refresh[t].st = "config" /\ oidc.st \in {"resolved", "rejected"}

\* Half a second passes.  Without an unexpired cache entry the client's behaviour
\* does not depend on the time, and the clock is left alone.
Tick ==
    /\ now < MaxTime
    /\ ~ContinuationPending
    /\ \E k \in Keys : CachedValid(accessTokenMap[k])
    /\ now' = now + 1
    /\ UNCHANGED <<logtoConfig, storage, idToken, accessTokenMap, getAccessTokenPromiseMap, refresh,
                   oidc, jwks, task, requests, redirects>>

\* _getOidcConfig without once: every call sends the discovery fetch.
getOidcConfigUnmemoized(o) == [st |-> "pending", fetches |-> o.fetches + 1]

\* once(this._getOidcConfig): the first call runs _getOidcConfig, which sends the
\* discovery fetch; every call returns the promise of that first call.
getOidcConfig(o) ==
    IF o.st = "none" THEN [st |-> "pending", fetches |-> o.fetches + 1] ELSE o

\* The discovery fetch settles.
DiscoverySettles ==
    /\ oidc.st = "pending"
    /\ \E ok \in BOOLEAN :
          oidc' = [oidc EXCEPT !.st = IF ok THEN "resolved" ELSE "rejected"]
    /\ UNCHANGED <<logtoConfig, now, storage, idToken, accessTokenMap, getAccessTokenPromiseMap,
                   refresh, task, jwks, requests, redirects>>

\* _getJwtVerifyGetKey without once: every call creates a remote JWK set.
getJwtVerifyGetKeyUnmemoized(j) == [called |-> TRUE, created |-> j.created + 1]

\* once(this._getJwtVerifyGetKey): the first call creates the remote JWK set.
getJwtVerifyGetKey(j) ==
    IF j.called THEN j ELSE [called |-> TRUE, created |-> j.created + 1]

\* get isAuthenticated(): Boolean(this.idToken)
isAuthenticated == idToken # NULL

\* ------------------------------------------------------- getAccessToken
\* this.getAccessTokenPromiseMap.get(accessTokenKey)
cachedPromise(key) == getAccessTokenPromiseMap[key]

\* getAccessTokenByRefreshToken(resource) up to its first await, called by task t:
\* the promise it returns, which is rejected at once when no refresh token is stored.
RefreshStarted(r) ==
    IF storage.refreshToken = NULL
    THEN [st |-> "rejected", resource |-> r, ret |-> Err("not_authenticated", ""),
          idToken |-> NULL]
    ELSE [st |-> "config", resource |-> r, ret |-> NoRet, idToken |-> NULL]

\* A getAccessToken that leaves an expired entry in the cache for the refresh to
\* overwrite.
GetAccessTokenStartKeepsEntry(t, r) ==
    /\ CanStart(t)
    /\ LET key == buildAccessTokenKey(r)
           at == accessTokenMap[key]
           pre == storage.idToken # NULL /\ storage.refreshToken # NULL /\ ~CachedValid(at)
           bare == storage.idToken # NULL /\ storage.refreshToken = NULL /\ ~CachedValid(at)
           me == [task[t] EXCEPT !.op = "getAccessToken", !.resource = r, !.pre = pre,
                                 !.bare = bare,
                                 !.evicted = (idToken # NULL /\ at # NoEntry /\ ~CachedValid(at))]
       IN IF idToken = NULL
          THEN /\ task' = [task EXCEPT ![t] =
                              Done(me, Err("not_authenticated", ""))]
               /\ UNCHANGED <<accessTokenMap, getAccessTokenPromiseMap, refresh, oidc>>
          ELSE IF CachedValid(at)
          THEN /\ task' = [task EXCEPT ![t] = Done(me, Ok(at.token))]
               /\ UNCHANGED <<accessTokenMap, getAccessTokenPromiseMap, refresh, oidc>>
          ELSE /\ accessTokenMap' = accessTokenMap
               /\ IF cachedPromise(key) # NULL
                  THEN /\ task' = [task EXCEPT ![t] =
                                      [me EXCEPT !.pc = "join", !.wait = cachedPromise(key),
                                                 !.live = ~Settled(cachedPromise(key))]]
                       /\ UNCHANGED <<getAccessTokenPromiseMap, refresh, oidc>>
                  ELSE /\ refresh' = [refresh EXCEPT ![t] = RefreshStarted(r)]
                       /\ oidc' = IF storage.refreshToken = NULL THEN oidc
                                  ELSE getOidcConfig(oidc)
                       /\ getAccessTokenPromiseMap' =
                              [getAccessTokenPromiseMap EXCEPT ![key] = t]
                       /\ task' = [task EXCEPT ![t] =
                                      [me EXCEPT !.pc = "await", !.wait = t,
                                                 !.live = storage.refreshToken # NULL]]
    /\ UNCHANGED <<logtoConfig, now, storage, idToken, jwks, requests, redirects>>

\* getAccessToken(resource) up to its first await (or its return).
GetAccessTokenStart(t, r) ==
    /\ CanStart(t)
    /\ LET key == buildAccessTokenKey(r)
           at == accessTokenMap[key]
           pre == storage.idToken # NULL /\ storage.refreshToken # NULL /\ ~CachedValid(at)
           bare == storage.idToken # NULL /\ storage.refreshToken = NULL /\ ~CachedValid(at)
           me == [task[t] EXCEPT !.op = "getAccessToken", !.resource = r, !.pre = pre,
                                 !.bare = bare,
                                 !.evicted = (idToken # NULL /\ at # NoEntry /\ ~CachedValid(at))]
       IN IF idToken = NULL
          THEN /\ task' = [task EXCEPT ![t] =
                              Done(me, Err("not_authenticated", ""))]
               /\ UNCHANGED <<accessTokenMap, getAccessTokenPromiseMap, refresh, oidc>>
          ELSE IF CachedValid(at)
          THEN /\ task' = [task EXCEPT ![t] = Done(me, Ok(at.token))]
               /\ UNCHANGED <<accessTokenMap, getAccessTokenPromiseMap, refresh, oidc>>
          ELSE /\ accessTokenMap' = [accessTokenMap EXCEPT ![key] = NoEntry]
               /\ IF cachedPromise(key) # NULL
                  THEN /\ task' = [task EXCEPT ![t] =
                                      [me EXCEPT !.pc = "join", !.wait = cachedPromise(key),
                                                 !.live = ~Settled(cachedPromise(key))]]
                       /\ UNCHANGED <<getAccessTokenPromiseMap, refresh, oidc>>
                  ELSE /\ refresh' = [refresh EXCEPT ![t] = RefreshStarted(r)]
                       /\ oidc' = IF storage.refreshToken = NULL THEN oidc
                                  ELSE getOidcConfig(oidc)
                       /\ getAccessTokenPromiseMap' =
                              [getAccessTokenPromiseMap EXCEPT ![key] = t]
                       /\ task' = [task EXCEPT ![t] =
                                      [me EXCEPT !.pc = "await", !.wait = t,
                                                 !.live = storage.refreshToken # NULL]]
    /\ UNCHANGED <<logtoConfig, now, storage, idToken, jwks, requests, redirects>>

\* A refresh path without its try/catch: the cause is thrown as it is.
RawRefreshError(cause) == Err(cause, "")

\* catch (error): new LogtoClientError('get_access_token_by_refresh_token_failed', error)
WrapRefreshError(cause) == Err("get_access_token_by_refresh_token_failed", cause)

\* A refresh-grant request that always carries the scope override.
RefreshRequestAlwaysScoped(p) ==
    [NoRequest EXCEPT !.grant = "refresh_token", !.by = p,
                      !.refreshToken = storage.refreshToken,
                      !.resource = refresh[p].resource,
                      !.scopes = <<"offline_access">>]

\* The request fetchTokenByRefreshToken sends for promise p.
RefreshRequest(p) ==
    [NoRequest EXCEPT !.grant = "refresh_token", !.by = p,
                      !.refreshToken = storage.refreshToken,
                      !.resource = refresh[p].resource,
                      !.scopes = IF refresh[p].resource # NoResource
                                 THEN <<"offline_access">> ELSE <<>>]

\* getAccessTokenByRefreshToken after `await this.getOidcConfig()`: the discovery
\* failure is wrapped, or the refresh-grant request is sent.
RefreshAfterConfig(p) ==
    /\ refresh[p].st = "config"
    /\ oidc.st \in {"resolved", "rejected"}
    /\ IF oidc.st = "rejected"
       THEN /\ refresh' = [refresh EXCEPT ![p].st = "rejected",
                                          ![p].ret = WrapRefreshError("fetch_oidc_config")]
            /\ UNCHANGED requests
       ELSE /\ refresh' = [refresh EXCEPT ![p].st = "fetch"]
            /\ requests' = requests \cup {RefreshRequest(p)}
    /\ UNCHANGED <<logtoConfig, now, storage, idToken, accessTokenMap, getAccessTokenPromiseMap,
                   oidc, jwks, task, redirects>>

\* An idToken setter that writes the field and leaves the storage item.
SetIdTokenFieldOnly(s, it) == s

\* set refreshToken(refreshToken): a missing value removes the item
SetRefreshToken(s, rt) == [s EXCEPT !.refreshToken = rt]
\* set idToken(idToken): the field and the storage item
SetIdToken(s, it) == [s EXCEPT !.idToken = it]

\* A refresh that caches the access token and leaves the stored refresh token.
RefreshSucceedsKeepsToken(p, rt, it, e) ==
    /\ refresh[p].st = "fetch"
    /\ accessTokenMap' = [accessTokenMap EXCEPT ![buildAccessTokenKey(refresh[p].resource)] =
                             [token |-> p, expiresAt |-> 2 * (RoundSec(now) + e)]]
    /\ IF it # NULL
       THEN /\ refresh' = [refresh EXCEPT ![p].st = "verify", ![p].idToken = it]
            /\ jwks' = getJwtVerifyGetKey(jwks)
       ELSE /\ refresh' = [refresh EXCEPT ![p].st = "resolved", ![p].ret = Ok(p)]
            /\ UNCHANGED jwks
    /\ UNCHANGED <<logtoConfig, now, storage, idToken, getAccessTokenPromiseMap, oidc, task,
                   requests, redirects>>

\* The token endpoint answers the refresh-grant request of promise p with tokens:
\* the access token is cached, the refresh token stored, and a returned ID token
\* goes to verifyIdToken.
RefreshSucceeds(p, rt, it, e) ==
    /\ refresh[p].st = "fetch"
    /\ accessTokenMap' = [accessTokenMap EXCEPT ![buildAccessTokenKey(refresh[p].resource)] =
                             [token |-> p, expiresAt |-> 2 * (RoundSec(now) + e)]]
    /\ storage' = SetRefreshToken(storage, rt)
    /\ IF it # NULL
       THEN /\ refresh' = [refresh EXCEPT ![p].st = "verify", ![p].idToken = it]
            /\ jwks' = getJwtVerifyGetKey(jwks)
       ELSE /\ refresh' = [refresh EXCEPT ![p].st = "resolved", ![p].ret = Ok(p)]
            /\ UNCHANGED jwks
    /\ UNCHANGED <<logtoConfig, now, idToken, getAccessTokenPromiseMap, oidc, task, requests, redirects>>

\* The refresh-grant request of promise p fails.
RefreshFails(p) ==
    /\ refresh[p].st = "fetch"
    /\ refresh' = [refresh EXCEPT ![p].st = "rejected",
                                  ![p].ret = WrapRefreshError("fetch_token")]
    /\ UNCHANGED <<logtoConfig, now, storage, idToken, accessTokenMap, getAccessTokenPromiseMap,
                   oidc, jwks, task, requests, redirects>>

\* verifyIdToken of the rotated ID token settles.
RefreshVerified(p, ok) ==
    /\ refresh[p].st = "verify"
    /\ IF ok
       THEN /\ idToken' = refresh[p].idToken
            /\ storage' = SetIdToken(storage, refresh[p].idToken)
            /\ refresh' = [refresh EXCEPT ![p].st = "resolved", ![p].ret = Ok(p)]
       ELSE /\ refresh' = [refresh EXCEPT ![p].st = "rejected",
                                          ![p].ret = WrapRefreshError("invalid_id_token")]
            /\ UNCHANGED <<idToken, storage>>
    /\ UNCHANGED <<logtoConfig, now, accessTokenMap, getAccessTokenPromiseMap, oidc, jwks, task,
                   requests, redirects>>

\* What getAccessToken does to the promise map after `await promise`: the entry is
\* deleted when the promise resolved; a rejection throws before the delete.
PromiseMapAfterAwait(t) ==
    IF refresh[t].st = "resolved"
    THEN [getAccessTokenPromiseMap EXCEPT ![buildAccessTokenKey(task[t].resource)] = NULL]
    ELSE getAccessTokenPromiseMap

\* getAccessToken after `await promise`, in the call that made the promise.
GetAccessTokenReturns(t) ==
    /\ task[t].pc = "await"
    /\ Settled(t)
    /\ getAccessTokenPromiseMap' = PromiseMapAfterAwait(t)
    /\ task' = [task EXCEPT ![t] = Done(task[t], refresh[t].ret)]
    /\ UNCHANGED <<logtoConfig, now, storage, idToken, accessTokenMap, refresh, oidc, jwks,
                   requests, redirects>>

\* `return cachedPromise` settles in a call that joined another call's promise.
GetAccessTokenJoined(t) ==
    /\ task[t].pc = "join"
    /\ Settled(task[t].wait)
    /\ task' = [task EXCEPT ![t] = Done(task[t], refresh[task[t].wait].ret)]
    /\ UNCHANGED <<logtoConfig, now, storage, idToken, accessTokenMap, getAccessTokenPromiseMap,
                   refresh, oidc, jwks, requests, redirects>>

\* ------------------------------------------------------ getIdTokenClaims
\* getIdTokenClaims(): the claims decoded from the ID token, named by the token.
GetIdTokenClaims(t) ==
    /\ CanStart(t)
    /\ task' = [task EXCEPT ![t] =
                   Done([IdleTask EXCEPT !.op = "getIdTokenClaims"],
                        IF idToken = NULL THEN Err("not_authenticated", "")
                        ELSE Ok(idToken))]
    /\ UNCHANGED <<logtoConfig, now, storage, idToken, accessTokenMap, getAccessTokenPromiseMap,
                   refresh, oidc, jwks, requests, redirects>>

\* ---------------------------------------------------------------- signIn
\* A failure of the requester, passed on as it is.
RequestError(what) == Err("request_failed", what)

\* set signInSession(item): the item is stored as JSON text; null removes it
SetSignInSession(s, json) == [s EXCEPT !.signInSession = json]

\* buildPrompt(prompt): prompt ?? Prompt.Consent
buildPrompt(prompt) == IF prompt = "" THEN "consent" ELSE prompt

\* withDefaultScopes(scopes): the reserved scopes and then the given ones, each
\* once, joined by spaces
withDefaultScopes(scopes) == JoinSpace(Unique(ReservedScope \o scopes))

\* A generateSignInUri that takes the challenge method from the configuration's
\* prompt.
generateSignInUriPlain(p) ==
    << <<"client_id", p.clientId>>,
       <<"redirect_uri", p.redirectUri>>,
       <<"code_challenge", p.codeChallenge>>,
       <<"code_challenge_method", IF p.prompt = "login" THEN "plain" ELSE "S256">>,
       <<"state", p.state>>,
       <<"response_type", "code">>,
       <<"prompt", buildPrompt(p.prompt)>>,
       <<"scope", withDefaultScopes(p.scopes)>> >>

\* generateSignInUri(parameters): the query of the authorization URL, as the
\* URLSearchParams holds it
generateSignInUri(p) ==
    << <<"client_id", p.clientId>>,
       <<"redirect_uri", p.redirectUri>>,
       <<"code_challenge", p.codeChallenge>>,
       <<"code_challenge_method", "S256">>,
       <<"state", p.state>>,
       <<"response_type", "code">>,
       <<"prompt", buildPrompt(p.prompt)>>,
       <<"scope", withDefaultScopes(p.scopes)>> >>
    \o (IF p.loginHint # "" THEN << <<"login_hint", p.loginHint>> >> ELSE <<>>)
    \o [i \in 1..Len(p.resources) |-> <<"resource", p.resources[i]>>]
    \o (IF p.interactionMode # "" THEN << <<"interaction_mode", p.interactionMode>> >>
        ELSE <<>>)

\* The URL signIn hands to handleRedirect: generateSignInUri of the configuration
\* and of the call's redirect URI, challenge and state.
SignInUri(redirectUri, codeChallenge, state) ==
    [NoRedirect EXCEPT !.kind = "signIn", !.redirectUri = redirectUri,
                       !.codeChallenge = codeChallenge, !.state = state,
                       !.params = generateSignInUri(
                           [clientId |-> logtoConfig.appId, redirectUri |-> redirectUri,
                            codeChallenge |-> codeChallenge, state |-> state,
                            scopes |-> logtoConfig.scopes,
                            resources |-> logtoConfig.resources,
                            prompt |-> logtoConfig.prompt,
                            loginHint |-> "", interactionMode |-> ""])]

\* The access tokens the cache holds.
CachedTokens == {accessTokenMap[k].token : k \in Keys} \ {NULL}

\* signIn(redirectUri) up to `await this.getOidcConfig()`.
SignInStart(t, uri) ==
    /\ CanStart(t)
    /\ oidc' = getOidcConfig(oidc)
    /\ task' = [task EXCEPT ![t] = [IdleTask EXCEPT !.op = "signIn", !.pc = "si_config",
                                                    !.url = [NoUrl EXCEPT !.base = uri],
                                                    !.cached = CachedTokens]]
    /\ UNCHANGED <<logtoConfig, now, storage, idToken, accessTokenMap, getAccessTokenPromiseMap,
                   refresh, jwks, requests, redirects>>

\* A signIn that stores its session as soon as the code verifier is generated,
\* before the challenge is awaited.
SignInAfterConfigStoresSession(t) ==
    /\ task[t].pc = "si_config"
    /\ oidc.st \in {"resolved", "rejected"}
    /\ task' = [task EXCEPT ![t] =
                   IF oidc.st = "rejected"
                   THEN Done(task[t], RequestError("fetch_oidc_config"))
                   ELSE [task[t] EXCEPT !.pc = "si_challenge"]]
    /\ storage' = IF oidc.st = "rejected" THEN storage
                  ELSE SetSignInSession(storage,
                           JsonStringify([redirectUri |-> task[t].url.base,
                                          codeVerifier |-> t, state |-> t]))
    /\ UNCHANGED <<logtoConfig, now, idToken, accessTokenMap, getAccessTokenPromiseMap,
                   refresh, oidc, jwks, requests, redirects>>

\* signIn after the discovery: the code verifier is generated and the challenge
\* awaited; a discovery failure is thrown.
SignInAfterConfig(t) ==
    /\ task[t].pc = "si_config"
    /\ oidc.st \in {"resolved", "rejected"}
    /\ task' = [task EXCEPT ![t] =
                   IF oidc.st = "rejected"
                   THEN Done(task[t], RequestError("fetch_oidc_config"))
                   ELSE [task[t] EXCEPT !.pc = "si_challenge"]]
    /\ UNCHANGED <<logtoConfig, now, storage, idToken, accessTokenMap, getAccessTokenPromiseMap,
                   refresh, oidc, jwks, requests, redirects>>

\* A signIn that stores the session and redirects with the tokens left in storage.
SignInRedirectsKeepsTokens(t) ==
    /\ task[t].pc = "si_challenge"
    /\ storage' = SetSignInSession(storage,
                       JsonStringify([redirectUri |-> task[t].url.base,
                                      codeVerifier |-> t, state |-> t]))
    /\ redirects' = Append(redirects, SignInUri(task[t].url.base, t, t))
    /\ task' = [task EXCEPT ![t] = Done(task[t], Ok(NULL))]
    /\ UNCHANGED <<logtoConfig, now, idToken, accessTokenMap, getAccessTokenPromiseMap, refresh, oidc,
                   jwks, requests>>

\* A signIn that leaves a session that is already stored as it is.
SignInRedirectsKeepsPending(t) ==
    /\ task[t].pc = "si_challenge"
    /\ storage' = [idToken |-> NULL, refreshToken |-> NULL,
                   signInSession |->
                       IF storage.signInSession # <<>> THEN storage.signInSession
                       ELSE JsonStringify([redirectUri |-> task[t].url.base,
                                           codeVerifier |-> t, state |-> t])]
    /\ idToken' = NULL
    /\ redirects' = Append(redirects, SignInUri(task[t].url.base, t, t))
    /\ task' = [task EXCEPT ![t] = Done(task[t], Ok(NULL))]
    /\ UNCHANGED <<logtoConfig, now, accessTokenMap, getAccessTokenPromiseMap, refresh, oidc, jwks,
                   requests>>

\* signIn after `await generateCodeChallenge(codeVerifier)`: the session is stored,
\* the tokens are removed and the redirect is made; task t's verifier, challenge
\* and state are the values only it has.
SignInRedirects(t) ==
    /\ task[t].pc = "si_challenge"
    /\ storage' = [idToken |-> NULL, refreshToken |-> NULL,
                   signInSession |-> JsonStringify([redirectUri |-> task[t].url.base,
                                                    codeVerifier |-> t, state |-> t])]
    /\ idToken' = NULL
    /\ redirects' = Append(redirects, SignInUri(task[t].url.base, t, t))
    /\ task' = [task EXCEPT ![t] = Done(task[t], Ok(NULL))]
    /\ UNCHANGED <<logtoConfig, now, accessTokenMap, getAccessTokenPromiseMap, refresh, oidc, jwks,
                   requests>>

\* generateCodeChallenge fails (crypto.subtle is unavailable).
SignInChallengeFails(t) ==
    /\ task[t].pc = "si_challenge"
    /\ task' = [task EXCEPT ![t] = Done(task[t], Err("crypto_subtle_unavailable", ""))]
    /\ UNCHANGED <<logtoConfig, now, storage, idToken, accessTokenMap, getAccessTokenPromiseMap,
                   refresh, oidc, jwks, requests, redirects>>

\* ---------------------------------------------------- handleSignInCallback
\* verifyAndParseCodeFromCallbackUri(callbackUri, redirectUri, state): the error
\* code it throws, or "" when it returns the code.
verifyAndParseCodeFromCallbackUri(url, redirectUri, state) ==
    IF url.base # redirectUri THEN "callback_uri_verification.redirect_uri_mismatched"
    ELSE IF url.error # NULL THEN "callback_uri_verification.error_found"
    ELSE IF url.code = NULL THEN "callback_uri_verification.missing_code"
    ELSE IF url.state = NULL THEN "callback_uri_verification.missing_state"
    ELSE IF url.state # state THEN "callback_uri_verification.state_mismatched"
    ELSE ""

CallbackUris ==
    [base : RedirectUris, code : {NULL, 1}, state : {NULL} \cup 1..(MaxTasks + 1),
     error : {NULL, 1}]

\* ------------------------------------------------------ isSignInRedirected
\* A boolean that a call returns, as 1 or 0.
Bool(b) == IF b THEN 1 ELSE 0

\* The URLs given to isSignInRedirected: a redirect URI, with or without a query.
RedirectedUris == {u \in CallbackUris : u.state \in {NULL, 1} /\ u.error = NULL}

\* `${origin}${pathname}` of new URL(url): the URL without its query.
OriginPathname(url) == url.base

\* An isSignInRedirected that compares the whole URL with the redirect URI.
isSignInRedirectedWholeUrl(got, url) ==
    got.kind = "item" /\ url = [NoUrl EXCEPT !.base = got.item.redirectUri]

\* isSignInRedirected(url), given what the signInSession getter returned.
isSignInRedirected(got, url) ==
    got.kind = "item" /\ OriginPathname(url) = got.item.redirectUri

\* A call of isSignInRedirected(url): the getter throws on a malformed session.
IsSignInRedirected(t, url) ==
    /\ CanStart(t)
    /\ LET got == signInSessionGet(storage.signInSession)
           me == [IdleTask EXCEPT !.op = "isSignInRedirected", !.url = url]
       IN task' = [task EXCEPT ![t] =
                      Done(me, IF got.kind = "invalid"
                               THEN Err("sign_in_session.invalid", got.cause)
                               ELSE Ok(Bool(isSignInRedirected(got, url))))]
    /\ UNCHANGED <<logtoConfig, now, storage, idToken, accessTokenMap, getAccessTokenPromiseMap,
                   refresh, oidc, jwks, requests, redirects>>

\* ------------------------------------------- the signInSession accessors
\* The sessions given to the setter; NoItem is null.
SessionItems == [redirectUri : RedirectUris, codeVerifier : {1}, state : {1, 2}]

\* A setter that ignores null.
signInSessionSetKeeps(s, item) ==
    IF item = NoItem THEN s ELSE SetSignInSession(s, JsonStringify(item))

\* set signInSession(item): null removes the storage item, a session is stored as
\* its JSON text.
signInSessionSet(s, item) ==
    IF item = NoItem THEN SetSignInSession(s, <<>>)
    ELSE SetSignInSession(s, JsonStringify(item))

\* A write through the setter, as a call of its own.
SetSignInSessionItem(t, item) ==
    /\ CanStart(t)
    /\ storage' = signInSessionSet(storage, item)
    /\ task' = [task EXCEPT ![t] =
                   Done([IdleTask EXCEPT !.op = "setSignInSession", !.sess = item], Ok(NULL))]
    /\ UNCHANGED <<logtoConfig, now, idToken, accessTokenMap, getAccessTokenPromiseMap, refresh, oidc,
                   jwks, requests, redirects>>

\* A read through the getter, as a call of its own: it returns the session (1) or
\* null (0), or throws.
GetSignInSessionItem(t) ==
    /\ CanStart(t)
    /\ LET got == signInSessionGet(storage.signInSession)
           me == [IdleTask EXCEPT !.op = "getSignInSession", !.sess = got.item]
       IN task' = [task EXCEPT ![t] =
                      Done(me, IF got.kind = "invalid"
                               THEN Err("sign_in_session.invalid", got.cause)
                               ELSE Ok(Bool(got.kind = "item")))]
    /\ UNCHANGED <<logtoConfig, now, storage, idToken, accessTokenMap, getAccessTokenPromiseMap,
                   refresh, oidc, jwks, requests, redirects>>

\* handleSignInCallback without `if (!signInSession)`: the members of a missing
\* session are undefined.
CallbackThrowsNoSessionCheck(got, url) ==
    IF got.kind = "invalid" THEN "sign_in_session.invalid"
    ELSE verifyAndParseCodeFromCallbackUri(url, got.item.redirectUri, got.item.state)

\* handleSignInCallback taking the code from the URI without verifying it.
CallbackThrowsNoVerification(got, url) ==
    IF got.kind = "null" THEN "sign_in_session.not_found"
    ELSE IF got.kind = "invalid" THEN "sign_in_session.invalid"
    ELSE ""

\* What handleSignInCallback throws before its first await: the code of the error,
\* or "" when the session is there and the callback URI passes the verification.
CallbackThrows(got, url) ==
    IF got.kind = "null" THEN "sign_in_session.not_found"
    ELSE IF got.kind = "invalid" THEN "sign_in_session.invalid"
    ELSE verifyAndParseCodeFromCallbackUri(url, got.item.redirectUri, got.item.state)

\* A handleSignInCallback that removes the session before it verifies the URI.
HandleSignInCallbackStartClearsSession(t, url) ==
    /\ CanStart(t)
    /\ LET got == signInSessionGet(storage.signInSession)
           err == CallbackThrows(got, url)
           me == [IdleTask EXCEPT !.op = "handleSignInCallback", !.url = url]
       IN IF err # ""
          THEN /\ task' = [task EXCEPT ![t] = Done(me, Err(err, got.cause))]
               /\ UNCHANGED oidc
          ELSE /\ task' = [task EXCEPT ![t] =
                              [me EXCEPT !.pc = "cb_config", !.url = url, !.sess = got.item]]
               /\ oidc' = getOidcConfig(oidc)
    /\ storage' = SetSignInSession(storage, <<>>)
    /\ UNCHANGED <<logtoConfig, now, idToken, accessTokenMap, getAccessTokenPromiseMap,
                   refresh, jwks, requests, redirects>>

\* handleSignInCallback(callbackUri) up to `await this.getOidcConfig()`.
HandleSignInCallbackStart(t, url) ==
    /\ CanStart(t)
    /\ LET got == signInSessionGet(storage.signInSession)
           err == CallbackThrows(got, url)
           me == [IdleTask EXCEPT !.op = "handleSignInCallback", !.url = url]
       IN IF err # ""
          THEN /\ task' = [task EXCEPT ![t] = Done(me, Err(err, got.cause))]
               /\ UNCHANGED oidc
          ELSE /\ task' = [task EXCEPT ![t] =
                              [me EXCEPT !.pc = "cb_config", !.url = url, !.sess = got.item]]
               /\ oidc' = getOidcConfig(oidc)
    /\ UNCHANGED <<logtoConfig, now, storage, idToken, accessTokenMap, getAccessTokenPromiseMap,
                   refresh, jwks, requests, redirects>>

\* The request fetchTokenByAuthorizationCode sends for task t.
CodeRequest(t) ==
    [NoRequest EXCEPT !.grant = "authorization_code", !.by = t,
                      !.code = task[t].url.code,
                      !.redirectUri = task[t].sess.redirectUri,
                      !.codeVerifier = task[t].sess.codeVerifier]

\* handleSignInCallback after the discovery: the code is exchanged.
HandleSignInCallbackAfterConfig(t) ==
    /\ task[t].pc = "cb_config"
    /\ oidc.st \in {"resolved", "rejected"}
    /\ IF oidc.st = "rejected"
       THEN /\ task' = [task EXCEPT ![t] = Done(task[t], RequestError("fetch_oidc_config"))]
            /\ UNCHANGED requests
       ELSE /\ task' = [task EXCEPT ![t].pc = "cb_fetch"]
            /\ requests' = requests \cup {CodeRequest(t)}
    /\ UNCHANGED <<logtoConfig, now, storage, idToken, accessTokenMap, getAccessTokenPromiseMap,
                   refresh, oidc, jwks, redirects>>

\* A saveCodeToken that does not cache the access token.
saveCodeTokenMapNone(m, resp) == m

\* saveCodeToken(response): the tokens are stored and the access token is cached
\* under the key of no resource.
saveCodeTokenStorage(s, resp) ==
    SetIdToken(SetRefreshToken(s, resp.refreshToken), resp.idToken)
saveCodeTokenMap(m, resp) ==
    [m EXCEPT ![buildAccessTokenKey(NoResource)] =
        [token |-> resp.accessToken, expiresAt |-> now + 2 * resp.expiresIn]]

\* An exchange whose tokens are saved when the response arrives, before the ID
\* token is verified.
ExchangeSucceedsSavesTokens(t, rt, e) ==
    /\ task[t].pc = "cb_fetch"
    /\ LET resp == [accessToken |-> t, refreshToken |-> rt, idToken |-> t, expiresIn |-> e]
       IN /\ task' = [task EXCEPT ![t].pc = "cb_verify", ![t].resp = resp]
          /\ storage' = saveCodeTokenStorage(storage, resp)
          /\ idToken' = resp.idToken
          /\ accessTokenMap' = saveCodeTokenMap(accessTokenMap, resp)
    /\ jwks' = getJwtVerifyGetKey(jwks)
    /\ UNCHANGED <<logtoConfig, now, getAccessTokenPromiseMap, refresh, oidc, requests, redirects>>

\* The token endpoint answers the exchange with tokens, and the ID token goes to
\* verifyIdToken.
ExchangeSucceeds(t, rt, e) ==
    /\ task[t].pc = "cb_fetch"
    /\ task' = [task EXCEPT ![t].pc = "cb_verify",
                            ![t].resp = [accessToken |-> t, refreshToken |-> rt,
                                         idToken |-> t, expiresIn |-> e]]
    /\ jwks' = getJwtVerifyGetKey(jwks)
    /\ UNCHANGED <<logtoConfig, now, storage, idToken, accessTokenMap, getAccessTokenPromiseMap,
                   refresh, oidc, requests, redirects>>

\* The exchange request fails.
ExchangeFails(t) ==
    /\ task[t].pc = "cb_fetch"
    /\ task' = [task EXCEPT ![t] = Done(task[t], RequestError("fetch_token"))]
    /\ UNCHANGED <<logtoConfig, now, storage, idToken, accessTokenMap, getAccessTokenPromiseMap,
                   refresh, oidc, jwks, requests, redirects>>

\* A handleSignInCallback that saves the tokens and leaves the session for later.
CallbackVerifiedKeepsSession(t) ==
    /\ task[t].pc = "cb_verify"
    /\ storage' = saveCodeTokenStorage(storage, task[t].resp)
    /\ idToken' = task[t].resp.idToken
    /\ accessTokenMap' = saveCodeTokenMap(accessTokenMap, task[t].resp)
    /\ task' = [task EXCEPT ![t] = Done(task[t], Ok(NULL))]
    /\ UNCHANGED <<logtoConfig, now, getAccessTokenPromiseMap, refresh, oidc, jwks, requests, redirects>>

\* handleSignInCallback after `await this.verifyIdToken(...)`: the tokens are
\* saved and the session is removed.
CallbackVerified(t) ==
    /\ task[t].pc = "cb_verify"
    /\ storage' = SetSignInSession(saveCodeTokenStorage(storage, task[t].resp), <<>>)
    /\ idToken' = task[t].resp.idToken
    /\ accessTokenMap' = saveCodeTokenMap(accessTokenMap, task[t].resp)
    /\ task' = [task EXCEPT ![t] = Done(task[t], Ok(NULL))]
    /\ UNCHANGED <<logtoConfig, now, getAccessTokenPromiseMap, refresh, oidc, jwks, requests, redirects>>

\* verifyIdToken throws invalid_id_token.
CallbackVerificationFails(t) ==
    /\ task[t].pc = "cb_verify"
    /\ task' = [task EXCEPT ![t] = Done(task[t], Err("invalid_id_token", ""))]
    /\ UNCHANGED <<logtoConfig, now, storage, idToken, accessTokenMap, getAccessTokenPromiseMap,
                   refresh, oidc, jwks, requests, redirects>>

\* --------------------------------------------------------------- signOut
PostLogoutUris == {"", "home"}

\* generateSignOutUri(...): the parameters of the end-session URL
SignOutUri(hint, post) ==
    [NoRedirect EXCEPT !.kind = "signOut", !.idTokenHint = hint,
                       !.postLogoutRedirectUri = post]

\* A signOut without `if (!this.idToken)`.
SignOutStartUnchecked(t, post) ==
    /\ CanStart(t)
    /\ task' = [task EXCEPT ![t] =
                   [IdleTask EXCEPT !.op = "signOut", !.pc = "so_config",
                                    !.url = [NoUrl EXCEPT !.base = post]]]
    /\ oidc' = getOidcConfig(oidc)
    /\ UNCHANGED <<logtoConfig, now, storage, idToken, accessTokenMap, getAccessTokenPromiseMap,
                   refresh, jwks, requests, redirects>>

\* signOut(postLogoutRedirectUri) up to `await this.getOidcConfig()`.
SignOutStart(t, post) ==
    /\ CanStart(t)
    /\ LET me == [IdleTask EXCEPT !.op = "signOut"]
       IN IF idToken = NULL
          THEN /\ task' = [task EXCEPT ![t] = Done(me, Err("not_authenticated", ""))]
               /\ UNCHANGED oidc
          ELSE /\ task' = [task EXCEPT ![t] =
                              [me EXCEPT !.pc = "so_config",
                                         !.url = [NoUrl EXCEPT !.base = post]]]
               /\ oidc' = getOidcConfig(oidc)
    /\ UNCHANGED <<logtoConfig, now, storage, idToken, accessTokenMap, getAccessTokenPromiseMap,
                   refresh, jwks, requests, redirects>>

\* The end of signOut: the cache and the tokens are cleared and the redirect made.
SignOutClears(t, revoked) ==
    /\ accessTokenMap' = [k \in Keys |-> NoEntry]
    /\ storage' = SetIdToken(SetRefreshToken(storage, NULL), NULL)
    /\ idToken' = NULL
    /\ redirects' = Append(redirects, SignOutUri(idToken, task[t].url.base))
    /\ task' = [task EXCEPT ![t] = Done([task[t] EXCEPT !.revoked = revoked], Ok(NULL))]

\* signOut after the discovery: a stored refresh token is sent to the revocation
\* endpoint; with none stored signOut runs to its end.
SignOutAfterConfig(t) ==
    /\ task[t].pc = "so_config"
    /\ oidc.st \in {"resolved", "rejected"}
    /\ IF oidc.st = "rejected"
       THEN /\ task' = [task EXCEPT ![t] = Done(task[t], RequestError("fetch_oidc_config"))]
            /\ UNCHANGED <<storage, idToken, accessTokenMap, requests, redirects>>
       ELSE IF storage.refreshToken # NULL
       THEN /\ task' = [task EXCEPT ![t].pc = "so_revoke"]
            /\ requests' = requests \cup
                  {[NoRequest EXCEPT !.grant = "revoke", !.by = t,
                                     !.refreshToken = storage.refreshToken]}
            /\ UNCHANGED <<storage, idToken, accessTokenMap, redirects>>
       ELSE /\ SignOutClears(t, "")
            /\ UNCHANGED requests
    /\ UNCHANGED <<logtoConfig, now, getAccessTokenPromiseMap, refresh, oidc, jwks>>

\* A signOut that lets the failure of the revocation through.
SignOutRevokedThrows(t, ok) ==
    /\ task[t].pc = "so_revoke"
    /\ ok \in BOOLEAN
    /\ IF ok
       THEN SignOutClears(t, "ok")
       ELSE /\ task' = [task EXCEPT ![t] =
                           Done([task[t] EXCEPT !.revoked = "failed"],
                                RequestError("revoke"))]
            /\ UNCHANGED <<storage, idToken, accessTokenMap, redirects>>
    /\ UNCHANGED <<logtoConfig, now, getAccessTokenPromiseMap, refresh, oidc, jwks, requests>>

\* signOut after `await revoke(...)`: a failed revocation is caught and ignored.
SignOutRevoked(t, ok) ==
    /\ task[t].pc = "so_revoke"
    /\ ok \in BOOLEAN
    /\ SignOutClears(t, IF ok THEN "ok" ELSE "failed")
    /\ UNCHANGED <<logtoConfig, now, getAccessTokenPromiseMap, refresh, oidc, jwks, requests>>

\* ------------------------------------------------- getContext (Node client)
\* getContext(true) up to `await this.isAuthenticated()`: the answer is read.
GetContextStart(t) ==
    /\ CanStart(t)
    /\ task' = [task EXCEPT ![t] =
                   [IdleTask EXCEPT !.op = "getContext", !.pc = "gc_auth",
                                    !.ctx = [NoContext EXCEPT
                                                !.isAuthenticated = Bool(isAuthenticated)]]]
    /\ UNCHANGED <<logtoConfig, now, storage, idToken, accessTokenMap, getAccessTokenPromiseMap,
                   refresh, oidc, jwks, requests, redirects>>

\* getContext after `await this.isAuthenticated()`: without an ID token it returns
\* { isAuthenticated }; with one it awaits getIdTokenClaims(), outside the try.
GetContextAfterAuth(t) ==
    /\ task[t].pc = "gc_auth"
    /\ task' = [task EXCEPT ![t] =
                   IF task[t].ctx.isAuthenticated = 0 THEN Done(task[t], Ok(NULL))
                   ELSE IF idToken = NULL
                   THEN Done([task[t] EXCEPT !.ctx = NoContext],
                             Err("not_authenticated", ""))
                   ELSE [task[t] EXCEPT !.pc = "gc_claims", !.ctx.claims = idToken]]
    /\ UNCHANGED <<logtoConfig, now, storage, idToken, accessTokenMap, getAccessTokenPromiseMap,
                   refresh, oidc, jwks, requests, redirects>>

\* getContext after the claims: `await this.getAccessToken()` inside the try, the
\* call running up to its first await; a throw is caught and the result is
\* { isAuthenticated: false }.
GetContextGetAccessToken(t) ==
    /\ task[t].pc = "gc_claims"
    /\ LET key == buildAccessTokenKey(NoResource)
           at == accessTokenMap[key]
       IN IF idToken = NULL
          THEN /\ task' = [task EXCEPT ![t] = Done([task[t] EXCEPT !.ctx = NoContext],
                                                   Ok(NULL))]
               /\ UNCHANGED <<accessTokenMap, getAccessTokenPromiseMap, refresh, oidc>>
          ELSE IF CachedValid(at)
          THEN /\ task' = [task EXCEPT ![t].pc = "gc_token",
                                       ![t].ctx.accessToken = at.token]
               /\ UNCHANGED <<accessTokenMap, getAccessTokenPromiseMap, refresh, oidc>>
          ELSE /\ accessTokenMap' = [accessTokenMap EXCEPT ![key] = NoEntry]
               /\ IF cachedPromise(key) # NULL
                  THEN /\ task' = [task EXCEPT ![t].pc = "gc_join",
                                               ![t].wait = cachedPromise(key)]
                       /\ UNCHANGED <<getAccessTokenPromiseMap, refresh, oidc>>
                  ELSE /\ refresh' = [refresh EXCEPT ![t] = RefreshStarted(NoResource)]
                       /\ oidc' = IF storage.refreshToken = NULL THEN oidc
                                  ELSE getOidcConfig(oidc)
                       /\ getAccessTokenPromiseMap' =
                              [getAccessTokenPromiseMap EXCEPT ![key] = t]
                       /\ task' = [task EXCEPT ![t].pc = "gc_await", ![t].wait = t]
    /\ UNCHANGED <<logtoConfig, now, storage, idToken, jwks, requests, redirects>>

\* A getContext that lets the failure of getAccessToken() through.
GetContextTokenSettlesThrows(t) ==
    /\ task[t].pc \in {"gc_await", "gc_join"}
    /\ Settled(task[t].wait)
    /\ getAccessTokenPromiseMap' =
           IF task[t].pc = "gc_await" THEN PromiseMapAfterAwait(t)
           ELSE getAccessTokenPromiseMap
    /\ task' = [task EXCEPT ![t] =
                   IF refresh[task[t].wait].ret.st = "ok"
                   THEN [task[t] EXCEPT !.pc = "gc_token",
                                        !.ctx.accessToken = refresh[task[t].wait].ret.value]
                   ELSE Done([task[t] EXCEPT !.ctx = NoContext], refresh[task[t].wait].ret)]
    /\ UNCHANGED <<logtoConfig, now, storage, idToken, accessTokenMap, refresh, oidc, jwks,
                   requests, redirects>>

\* The promise getContext's getAccessToken() call waits on settles: the access
\* token is kept, or the rejection is caught and the result is
\* { isAuthenticated: false }.
GetContextTokenSettles(t) ==
    /\ task[t].pc \in {"gc_await", "gc_join"}
    /\ Settled(task[t].wait)
    /\ getAccessTokenPromiseMap' =
           IF task[t].pc = "gc_await" THEN PromiseMapAfterAwait(t)
           ELSE getAccessTokenPromiseMap
    /\ task' = [task EXCEPT ![t] =
                   IF refresh[task[t].wait].ret.st = "ok"
                   THEN [task[t] EXCEPT !.pc = "gc_token",
                                        !.ctx.accessToken = refresh[task[t].wait].ret.value]
                   ELSE Done([task[t] EXCEPT !.ctx = NoContext], Ok(NULL))]
    /\ UNCHANGED <<logtoConfig, now, storage, idToken, accessTokenMap, refresh, oidc, jwks,
                   requests, redirects>>

\* getContext after `await this.getAccessToken()`: the claims are read again,
\* still inside the try, and the context is returned.
GetContextReturns(t) ==
    /\ task[t].pc = "gc_token"
    /\ task' = [task EXCEPT ![t] =
                   IF idToken = NULL THEN Done([task[t] EXCEPT !.ctx = NoContext], Ok(NULL))
                   ELSE Done([task[t] EXCEPT !.ctx.claims = idToken], Ok(NULL))]
    /\ UNCHANGED <<logtoConfig, now, storage, idToken, accessTokenMap, getAccessTokenPromiseMap,
                   refresh, oidc, jwks, requests, redirects>>

\* -------------------------------------------------------- specifications
GetAccessTokenSteps ==
    \/ \E p \in Tasks : RefreshAfterConfig(p)
    \/ \E p \in Tasks : \E rt \in {NULL, p}, it \in {NULL, p}, e \in ExpiresIns :
          RefreshSucceeds(p, rt, it, e)
    \/ \E p \in Tasks : RefreshFails(p)
    \/ \E p \in Tasks, ok \in BOOLEAN : RefreshVerified(p, ok)
    \/ \E t \in Tasks : GetAccessTokenReturns(t)
    \/ \E t \in Tasks : GetAccessTokenJoined(t)

\* Up to MaxCalls calls of any operations, in any interleaving.
Next ==
    \/ Tick
    \/ DiscoverySettles
    \/ \E t \in 1..MaxCalls, r \in Resources : GetAccessTokenStart(t, r)
    \/ GetAccessTokenSteps
    \/ \E t \in 1..MaxCalls : GetIdTokenClaims(t)
    \/ \E t \in 1..MaxCalls, uri \in RedirectUris : SignInStart(t, uri)
    \/ \E t \in Tasks : SignInAfterConfig(t)
    \/ \E t \in Tasks : SignInRedirects(t)
    \/ \E t \in Tasks : SignInChallengeFails(t)
    \/ \E t \in 1..MaxCalls, url \in RedirectedUris : IsSignInRedirected(t, url)
    \/ \E t \in 1..MaxCalls, url \in CallbackUris : HandleSignInCallbackStart(t, url)
    \/ \E t \in Tasks : HandleSignInCallbackAfterConfig(t)
    \/ \E t \in Tasks : \E rt \in {NULL, t}, e \in ExpiresIns : ExchangeSucceeds(t, rt, e)
    \/ \E t \in Tasks : ExchangeFails(t)
    \/ \E t \in Tasks : CallbackVerified(t)
    \/ \E t \in Tasks : CallbackVerificationFails(t)
    \/ \E t \in 1..MaxCalls, post \in PostLogoutUris : SignOutStart(t, post)
    \/ \E t \in Tasks : SignOutAfterConfig(t)
    \/ \E t \in Tasks, ok \in BOOLEAN : SignOutRevoked(t, ok)

Spec == Init /\ [][Next]_vars

\* Up to MaxTasks calls of getAccessToken, in any interleaving, by a client that is
\* not in a sign-in.
InitRefresh == Init /\ storage.signInSession = <<>>

NextRefresh ==
    \/ Tick
    \/ DiscoverySettles
    \/ \E t \in Tasks, r \in Resources : GetAccessTokenStart(t, r)
    \/ GetAccessTokenSteps

SpecRefresh == InitRefresh /\ [][NextRefresh]_vars

\* Up to MaxTasks calls of signIn, handleSignInCallback and getAccessToken(), in any
\* interleaving, by a client constructed on a storage with no refresh token and
\* no sign-in session.
InitSession ==
    Init /\ storage.refreshToken = NULL /\ storage.signInSession = <<>>

NextSession ==
    \/ Tick
    \/ DiscoverySettles
    \/ \E t \in Tasks, uri \in RedirectUris : SignInStart(t, uri)
    \/ \E t \in Tasks : SignInAfterConfig(t)
    \/ \E t \in Tasks : SignInRedirects(t)
    \/ \E t \in Tasks : SignInChallengeFails(t)
    \/ \E t \in Tasks, url \in CallbackUris : HandleSignInCallbackStart(t, url)
    \/ \E t \in Tasks : HandleSignInCallbackAfterConfig(t)
    \/ \E t \in Tasks : \E rt \in {NULL, t}, e \in ExpiresIns : ExchangeSucceeds(t, rt, e)
    \/ \E t \in Tasks : ExchangeFails(t)
    \/ \E t \in Tasks : CallbackVerified(t)
    \/ \E t \in Tasks : CallbackVerificationFails(t)
    \/ \E t \in Tasks : GetAccessTokenStart(t, NoResource)
    \/ GetAccessTokenSteps

SpecSession == InitSession /\ [][NextSession]_vars

\* Up to MaxTasks calls that read or write the sign-in session: the getter and
\* the setter themselves, isSignInRedirected and handleSignInCallback, by a client
\* constructed on a storage whose session item is absent, well-formed or malformed.
InitAccessor ==
    /\ logtoConfig = constructor(DefaultConfig)
    /\ now = 0
    /\ \E it \in {NULL, Preloaded},
          ss \in {<<>>, PreloadedSession, MalformedSession, NotJson} :
          /\ storage = [idToken |-> it, refreshToken |-> NULL, signInSession |-> ss]
          /\ idToken = it
    /\ accessTokenMap = [k \in Keys |-> NoEntry]
    /\ getAccessTokenPromiseMap = [k \in Keys |-> NULL]
    /\ refresh = [t \in Tasks |-> NoRefresh]
    /\ oidc = [st |-> "none", fetches |-> 0]
    /\ jwks = [called |-> FALSE, created |-> 0]
    /\ task = [t \in Tasks |-> IdleTask]
    /\ requests = {}
    /\ redirects = <<>>

NextAccessor ==
    \/ DiscoverySettles
    \/ \E t \in Tasks, item \in SessionItems \cup {NoItem} : SetSignInSessionItem(t, item)
    \/ \E t \in Tasks : GetSignInSessionItem(t)
    \/ \E t \in Tasks, url \in RedirectedUris : IsSignInRedirected(t, url)
    \/ \E t \in Tasks, url \in RedirectedUris : HandleSignInCallbackStart(t, url)
    \/ \E t \in Tasks : HandleSignInCallbackAfterConfig(t)
    \/ \E t \in Tasks : \E rt \in {NULL, t}, e \in ExpiresIns : ExchangeSucceeds(t, rt, e)
    \/ \E t \in Tasks : ExchangeFails(t)
    \/ \E t \in Tasks : CallbackVerified(t)
    \/ \E t \in Tasks : CallbackVerificationFails(t)

SpecAccessor == InitAccessor /\ [][NextAccessor]_vars

\* Up to MaxCalls calls of signIn by a client constructed with any configuration,
\* on a storage with tokens or without.
InitConfig ==
    /\ \E config \in Configs : logtoConfig = constructor(config)
    /\ now = 0
    /\ \E it \in {NULL, Preloaded} :
          /\ storage = [idToken |-> it, refreshToken |-> it, signInSession |-> <<>>]
          /\ idToken = it
    /\ accessTokenMap = [k \in Keys |-> NoEntry]
    /\ getAccessTokenPromiseMap = [k \in Keys |-> NULL]
    /\ refresh = [t \in Tasks |-> NoRefresh]
    /\ oidc = [st |-> "none", fetches |-> 0]
    /\ jwks = [called |-> FALSE, created |-> 0]
    /\ task = [t \in Tasks |-> IdleTask]
    /\ requests = {}
    /\ redirects = <<>>

NextConfig ==
    \/ DiscoverySettles
    \/ \E t \in 1..MaxCalls, uri \in RedirectUris : SignInStart(t, uri)
    \/ \E t \in Tasks : SignInAfterConfig(t)
    \/ \E t \in Tasks : SignInRedirects(t)
    \/ \E t \in Tasks : SignInChallengeFails(t)

SpecConfig == InitConfig /\ [][NextConfig]_vars

\* Up to MaxTasks calls of getAccessToken, signIn and handleSignInCallback, in any
\* interleaving, by a client constructed on a storage with both tokens and no
\* sign-in session: a signed-in client that signs in again.
InitResignIn ==
    /\ Init
    /\ storage = [idToken |-> Preloaded, refreshToken |-> Preloaded, signInSession |-> <<>>]

\* The callback URLs the authorization server redirects to after a sign-in with the
\* first redirect URI: a code, the state of one of the calls, no error.
ResignInCallbackUris ==
    {url \in CallbackUris : /\ url.base = "cb1" /\ url.code # NULL
                            /\ url.state \in Tasks /\ url.error = NULL}

NextResignIn ==
    \/ Tick
    \/ DiscoverySettles
    \/ \E t \in Tasks, r \in Resources : GetAccessTokenStart(t, r)
    \/ GetAccessTokenSteps
    \/ \E t \in Tasks : SignInStart(t, "cb1")
    \/ \E t \in Tasks : SignInAfterConfig(t)
    \/ \E t \in Tasks : SignInRedirects(t)
    \/ \E t \in Tasks : SignInChallengeFails(t)
    \/ \E t \in Tasks, url \in ResignInCallbackUris : HandleSignInCallbackStart(t, url)
    \/ \E t \in Tasks : HandleSignInCallbackAfterConfig(t)
    \/ \E t \in Tasks : \E rt \in {NULL, t}, e \in ExpiresIns : ExchangeSucceeds(t, rt, e)
    \/ \E t \in Tasks : ExchangeFails(t)
    \/ \E t \in Tasks : CallbackVerified(t)
    \/ \E t \in Tasks : CallbackVerificationFails(t)

SpecResignIn == InitResignIn /\ [][NextResignIn]_vars

\* Up to MaxTasks calls of the Node client's getContext(true), of getAccessToken()
\* and of signOut(), in any interleaving, on a storage with or without tokens and
\* with no sign-in session.
InitContext == Init /\ storage.signInSession = <<>>

NextContext ==
    \/ DiscoverySettles
    \/ \E t \in Tasks : GetContextStart(t)
    \/ \E t \in Tasks : GetContextAfterAuth(t)
    \/ \E t \in Tasks : GetContextGetAccessToken(t)
    \/ \E t \in Tasks : GetContextTokenSettles(t)
    \/ \E t \in Tasks : GetContextReturns(t)
    \/ \E t \in Tasks : GetAccessTokenStart(t, NoResource)
    \/ GetAccessTokenSteps
    \/ \E t \in Tasks : SignOutStart(t, "")
    \/ \E t \in Tasks : SignOutAfterConfig(t)
    \/ \E t \in Tasks, ok \in BOOLEAN : SignOutRevoked(t, ok)

SpecContext == InitContext /\ [][NextContext]_vars

\* ----------------------------------------------------------------- claims
IsCall(t, op) == task[t].op = op
Returned(t) == task[t].pc = "done"
RefreshRequestsOf(p) == {q \in requests : q.grant = "refresh_token" /\ q.by = p}

\* C1: every finished getAccessToken(r) call that started with an ID token and a
\* refresh token stored and no unexpired token cached for r was resolved by a
\* refresh that sent exactly one refresh-grant request, with the token of that
\* refresh, the same for every call served by it; the only calls let off are those
\* whose refresh failed while they were waiting for it.
C1_SingleFlightRefresh ==
    \A t \in Tasks :
        (IsCall(t, "getAccessToken") /\ Returned(t) /\ task[t].pre) =>
            \/ /\ task[t].ret.st = "ok"
               /\ Cardinality(RefreshRequestsOf(task[t].wait)) = 1
               /\ task[t].ret.value = refresh[task[t].wait].ret.value
               /\ \A u \in Tasks :
                      (Returned(u) /\ task[u].wait = task[t].wait) => task[u].ret = task[t].ret
            \/ task[t].ret.st = "err" /\ task[t].live

\* C2: two finished getAccessToken calls for different resources that both started
\* with tokens stored and nothing unexpired cached for their resource were served
\* by two refreshes, each of which sent one refresh-grant request of its own for
\* its own resource; the only pairs let off are those in which a refresh failed
\* while its call was waiting for it.
C2_IndependentKeys ==
    \A t, u \in Tasks :
        (/\ t # u
         /\ IsCall(t, "getAccessToken") /\ Returned(t) /\ task[t].pre
         /\ IsCall(u, "getAccessToken") /\ Returned(u) /\ task[u].pre
         /\ task[t].resource # task[u].resource) =>
            \/ task[t].ret.st = "err" /\ task[t].live
            \/ task[u].ret.st = "err" /\ task[u].live
            \/ /\ task[t].ret.st = "ok" /\ task[u].ret.st = "ok"
               /\ task[t].wait # task[u].wait
               /\ \A x \in {t, u} :
                      /\ Cardinality(RefreshRequestsOf(task[x].wait)) = 1
                      /\ \A q \in RefreshRequestsOf(task[x].wait) :
                             q.resource = task[x].resource

\* The step in which task t calls getAccessToken.
CallsGetAccessToken(t) ==
    task[t].pc = "idle" /\ task'[t].op = "getAccessToken"

C4_FailedRefreshForgotten ==
    \A t \in Tasks :
        /\ (IsCall(t, "getAccessToken") /\ Returned(t) /\ task[t].pre
              /\ task[t].ret.st = "err") =>
               /\ task[t].ret = refresh[task[t].wait].ret
               /\ \A k \in Keys : getAccessTokenPromiseMap[k] # task[t].wait
        /\ (IsCall(t, "getAccessToken") /\ task[t].pre /\ task[t].wait # t) =>
               (task[t].live \/ refresh[task[t].wait].st = "resolved")

\* Task t has called getOidcConfig and waits for the config.
AwaitsConfig(t) ==
    task[t].pc \in {"si_config", "cb_config", "so_config"} \/ refresh[t].st = "config"
\* Task t has been given the config.
HasConfig(t) ==
    task[t].pc \in {"si_challenge", "cb_fetch", "cb_verify", "so_revoke"}
        \/ refresh[t].st \in {"fetch", "verify"}

\* C5: the client sends at most one discovery fetch, whichever operations ask for
\* the config and however their calls interleave, and every call that has been
\* given the config has the result of that one fetch.
C5_DiscoveryFetchedOnce ==
    /\ oidc.fetches <= 1
    /\ \A t \in Tasks : HasConfig(t) => (oidc.st = "resolved" /\ oidc.fetches = 1)

\* Two calls of different operations hold the config of the one fetch.
C5_Witness ==
    \E t, u \in Tasks :
        /\ HasConfig(t) /\ HasConfig(u)
        /\ task[t].op # task[u].op
        /\ oidc.fetches = 1

\* C6: a call that asks for the config after the discovery fetch has failed sends
\* a new discovery fetch.
C6_DiscoveryFailureNotCached ==
    [][\A t \in Tasks :
          (oidc.st = "rejected" /\ ~AwaitsConfig(t) /\ AwaitsConfig(t)') =>
              (oidc'.st = "pending" /\ oidc'.fetches = oidc.fetches + 1)]_vars

CallbackVerificationCodes ==
    {"callback_uri_verification.redirect_uri_mismatched",
     "callback_uri_verification.error_found",
     "callback_uri_verification.missing_state",
     "callback_uri_verification.state_mismatched",
     "callback_uri_verification.missing_code"}

\* C7: a handleSignInCallback call with a callback URI whose state is not the
\* state of the stored sign-in session throws a callback-verification error and
\* leaves the stored session as it is.
C7_StateMismatchKeepsSession ==
    [][\A t \in Tasks, url \in CallbackUris :
          LET got == signInSessionGet(storage.signInSession)
          IN (/\ task[t].pc = "idle"
              /\ task'[t].op = "handleSignInCallback"
              /\ got.kind = "item"
              /\ url.state # got.item.state
              /\ HandleSignInCallbackStart(t, url)) =>
                 /\ task'[t].pc = "done"
                 /\ task'[t].ret.st = "err"
                 /\ task'[t].ret.code \in CallbackVerificationCodes
                 /\ storage'.signInSession = storage.signInSession]_vars

\* A call failed on the state of its URI and a later call with the right URI
\* succeeded.
C7_Witness ==
    \E t, u \in Tasks :
        /\ t < u
        /\ IsCall(t, "handleSignInCallback") /\ Returned(t)
        /\ task[t].ret.code = "callback_uri_verification.state_mismatched"
        /\ IsCall(u, "handleSignInCallback") /\ Returned(u)
        /\ task[u].ret.st = "ok"

\* C8: a handleSignInCallback call made while no sign-in session is stored throws
\* sign_in_session.not_found at once: it sends no request and asks for no config,
\* and the storage, the ID token and the access-token cache stay as they are.
C8_NoSessionNotFound ==
    [][\A t \in Tasks :
          (/\ task[t].pc = "idle"
           /\ task'[t].op = "handleSignInCallback"
           /\ storage.signInSession = <<>>) =>
              /\ task'[t].pc = "done"
              /\ task'[t].ret = Err("sign_in_session.not_found", "")
              /\ UNCHANGED <<storage, idToken, accessTokenMap, requests, oidc>>]_vars

\* A call has failed for want of a session while tokens are stored.
C8_Witness ==
    \E t \in Tasks :
        /\ IsCall(t, "handleSignInCallback") /\ Returned(t)
        /\ task[t].ret.code = "sign_in_session.not_found"
        /\ storage.signInSession = <<>>
        /\ storage.idToken # NULL

\* The callback URI has an error parameter, lacks the code or the state, or has a
\* state other than the session's.
BadCallback(url, item) ==
    url.error # NULL \/ url.code = NULL \/ url.state = NULL \/ url.state # item.state

\* C9: a handleSignInCallback call whose callback URI has an error parameter, no
\* code, no state or a state other than the stored session's throws a
\* callback-verification error without sending a request, and every
\* authorization-code request sent carries the code of a callback URI that has
\* no error parameter, a code, and the state of the session its call read.
C9_ExchangeOnlyForVerifiedCallback ==
    [][/\ \A t \in Tasks, url \in CallbackUris :
             LET got == signInSessionGet(storage.signInSession)
             IN (/\ task[t].pc = "idle"
                 /\ task'[t].op = "handleSignInCallback"
                 /\ got.kind = "item"
                 /\ BadCallback(url, got.item)
                 /\ HandleSignInCallbackStart(t, url)) =>
                    /\ task'[t].pc = "done"
                    /\ task'[t].ret.code \in CallbackVerificationCodes
                    /\ requests' = requests
       /\ \A q \in requests' :
             q.grant = "authorization_code" =>
                 /\ ~BadCallback(task'[q.by].url, task'[q.by].sess)
                 /\ q.code = task'[q.by].url.code]_vars

\* One call was refused for its URI and another has sent the exchange request.
C9_Witness ==
    \E t \in Tasks :
        /\ IsCall(t, "handleSignInCallback") /\ Returned(t)
        /\ task[t].ret.code \in CallbackVerificationCodes
        /\ \A q \in requests : q.by # t
        /\ \E q \in requests : q.grant = "authorization_code"

\* C10: no step of a handleSignInCallback call other than the last step of a call
\* that succeeds changes the stored refresh token, the stored ID token or the
\* access-token cache, and a call that failed with invalid_id_token has left none
\* of the tokens of its exchange in them.
C10_FailedVerificationPersistsNothing ==
    [][\A t \in Tasks :
          /\ (/\ task'[t] # task[t]
              /\ task'[t].op = "handleSignInCallback"
              /\ ~(task'[t].pc = "done" /\ task'[t].ret.st = "ok")) =>
                 /\ storage'.refreshToken = storage.refreshToken
                 /\ storage'.idToken = storage.idToken
                 /\ idToken' = idToken
                 /\ accessTokenMap' = accessTokenMap
          /\ (task'[t].op = "handleSignInCallback"
                 /\ task'[t].ret.code = "invalid_id_token") =>
                 /\ storage'.refreshToken # t
                 /\ storage'.idToken # t
                 /\ idToken' # t
                 /\ \A k \in Keys : accessTokenMap'[k].token # t]_vars

\* The ID token of an exchange failed its verification while tokens were stored.
C10_Witness ==
    \E t \in Tasks :
        /\ IsCall(t, "handleSignInCallback") /\ Returned(t)
        /\ task[t].ret.code = "invalid_id_token"
        /\ storage.idToken # NULL
        /\ storage.refreshToken # NULL

\* The step in which the handleSignInCallback call t returns.
CallbackSucceeds(t) ==
    /\ task'[t].op = "handleSignInCallback"
    /\ task[t].pc # "done"
    /\ task'[t].pc = "done"
    /\ task'[t].ret.st = "ok"

\* C11: the step in which a handleSignInCallback call returns stores the ID token
\* and the refresh token of its exchange, caches its access token under the key of
\* no resource and removes the sign-in session, all at once; no other step stores
\* or caches a token of that exchange, and no other step of the call changes the
\* stored session.
C11_CallbackEffectsAtOnce ==
    [][\A t \in Tasks :
          task'[t].op = "handleSignInCallback" =>
              LET key == buildAccessTokenKey(NoResource)
              IN /\ CallbackSucceeds(t) =>
                        /\ storage'.idToken = t
                        /\ idToken' = t
                        /\ storage'.refreshToken = task[t].resp.refreshToken
                        /\ accessTokenMap'[key].token = t
                        /\ storage'.signInSession = <<>>
                 /\ (\/ storage'.idToken = t /\ storage.idToken # t
                     \/ storage'.refreshToken = t /\ storage.refreshToken # t
                     \/ accessTokenMap'[key].token = t /\ accessTokenMap[key].token # t) =>
                        CallbackSucceeds(t)
                 /\ (task'[t] # task[t]
                        /\ storage'.signInSession # storage.signInSession) =>
                        CallbackSucceeds(t)]_vars

\* A call has returned: its tokens are stored and cached and the session is gone.
C11_Witness ==
    \E t \in Tasks :
        /\ IsCall(t, "handleSignInCallback") /\ Returned(t) /\ task[t].ret.st = "ok"
        /\ storage.idToken = t
        /\ storage.refreshToken = t
        /\ accessTokenMap[buildAccessTokenKey(NoResource)].token = t
        /\ storage.signInSession = <<>>

\* The step in which the handleSignInCallback call t settles.
CallbackSettles(t) ==
    /\ task'[t].op = "handleSignInCallback"
    /\ task[t].pc # "done"
    /\ task'[t].pc = "done"

\* C12: a handleSignInCallback call that fails before its exchange request is sent
\* leaves the stored sign-in session as it is; a call that fails in the exchange
\* request or in the verification of the ID token does not leave the session it
\* read in storage; a call that returns leaves no session.
C12_SessionIntactOnlyBeforeExchange ==
    [][\A t \in Tasks :
          CallbackSettles(t) =>
              /\ (task'[t].ret.st = "err" /\ task[t].pc \in {"idle", "cb_config"}) =>
                     storage'.signInSession = storage.signInSession
              /\ (task'[t].ret.st = "err" /\ task[t].pc \in {"cb_fetch", "cb_verify"}) =>
                     storage'.signInSession # JsonStringify(task[t].sess)
              /\ task'[t].ret.st = "ok" => storage'.signInSession = <<>>]_vars

\* C13: when a handleSignInCallback call returns, the ID token and the refresh
\* token of its exchange are in storage, the client holds an ID token, no sign-in
\* session is stored and the access token is cached under the key of no resource
\* until expiresIn seconds from now; and a getAccessToken() call made while the
\* client holds an ID token and that cached token is unexpired returns it at once,
\* sending no request and starting no refresh.
C13_SignedInAfterCallback ==
    [][LET key == buildAccessTokenKey(NoResource)
       IN /\ \A t \in Tasks :
                 CallbackSucceeds(t) =>
                     /\ storage'.idToken = task[t].resp.idToken
                     /\ storage'.refreshToken = task[t].resp.refreshToken
                     /\ idToken' # NULL
                     /\ storage'.signInSession = <<>>
                     /\ accessTokenMap'[key] =
                            [token |-> task[t].resp.accessToken,
                             expiresAt |-> now + 2 * task[t].resp.expiresIn]
          /\ \A t, u \in Tasks :
                 (/\ CallsGetAccessToken(t)
                  /\ task'[t].resource = NoResource
                  /\ IsCall(u, "handleSignInCallback")
                  /\ idToken # NULL
                  /\ accessTokenMap[key].token = u
                  /\ accessTokenMap[key].expiresAt > now) =>
                     /\ task'[t].pc = "done"
                     /\ task'[t].ret = Ok(u)
                     /\ UNCHANGED <<requests, refresh, getAccessTokenPromiseMap>>]_vars

\* signIn, then handleSignInCallback on its session, then getAccessToken(): the
\* access token of the exchange is returned and no refresh-grant request was sent.
C13_Witness ==
    \E s, c, g \in Tasks :
        /\ IsCall(s, "signIn") /\ Returned(s) /\ task[s].ret.st = "ok"
        /\ IsCall(c, "handleSignInCallback") /\ Returned(c) /\ task[c].ret.st = "ok"
        /\ task[c].sess.state = s
        /\ IsCall(g, "getAccessToken") /\ Returned(g) /\ task[g].ret = Ok(c)
        /\ storage.idToken = c /\ storage.refreshToken = c
        /\ storage.signInSession = <<>>
        /\ \A q \in requests : q.grant # "refresh_token"

\* The signOut redirects made, and the signOut calls that returned.
SignOutRedirects(rs) == {i \in DOMAIN rs : rs[i].kind = "signOut"}
SignOutsReturned(tk) ==
    {t \in Tasks : tk[t].op = "signOut" /\ tk[t].pc = "done" /\ tk[t].ret.st = "ok"}

\* C14: when the revocation request of a signOut call fails, the call returns
\* without an error, the ID token and the refresh token are removed from storage,
\* and one redirect is made, to the end-session URL whose id_token_hint is the ID
\* token the client held; there are as many signOut redirects as signOut calls
\* that returned.
C14_SignOutDespiteFailedRevocation ==
    [][/\ \A t \in Tasks :
             (task[t].pc = "so_revoke" /\ task'[t].revoked = "failed") =>
                 /\ task'[t].pc = "done"
                 /\ task'[t].ret = Ok(NULL)
                 /\ storage'.idToken = NULL
                 /\ storage'.refreshToken = NULL
                 /\ idToken' = NULL
                 /\ redirects' = Append(redirects, SignOutUri(idToken, task[t].url.base))
       /\ Cardinality(SignOutRedirects(redirects')) = Cardinality(SignOutsReturned(task'))]_vars

\* A signOut call with both tokens stored has returned after its revocation request
\* failed, and the one redirect made carries the ID token that was stored.
C14_Witness ==
    \E t \in Tasks :
        /\ IsCall(t, "signOut") /\ Returned(t) /\ task[t].ret.st = "ok"
        /\ task[t].revoked = "failed"
        /\ \E q \in requests : q.grant = "revoke" /\ q.by = t /\ q.refreshToken = Preloaded
        /\ storage.idToken = NULL /\ storage.refreshToken = NULL
        /\ Len(redirects) = 1
        /\ redirects[1].kind = "signOut"
        /\ redirects[1].idTokenHint = Preloaded

\* C15: when a signOut call that was made while an ID token was stored settles,
\* with or without an error, the access-token cache is empty and neither a refresh
\* token nor an ID token is stored.
C15_SignOutAlwaysClears ==
    [][\A t \in Tasks :
          (/\ task'[t].op = "signOut"
           /\ task[t].pc \in {"so_config", "so_revoke"}
           /\ task'[t].pc = "done") =>
              /\ accessTokenMap' = [k \in Keys |-> NoEntry]
              /\ storage'.refreshToken = NULL
              /\ storage'.idToken = NULL
              /\ idToken' = NULL]_vars

\* C16: a call of getAccessToken (for any resource), getIdTokenClaims or signOut
\* made while no ID token is stored throws not_authenticated at once; it sends no
\* request and no discovery fetch, starts no refresh, makes no redirect and leaves
\* the storage and the access-token cache as they are.
C16_NotAuthenticatedWithoutIdToken ==
    [][\A t \in Tasks :
          (/\ task[t].pc = "idle"
           /\ task'[t].op \in {"getAccessToken", "getIdTokenClaims", "signOut"}
           /\ storage.idToken = NULL) =>
              /\ task'[t].pc = "done"
              /\ task'[t].ret = Err("not_authenticated", "")
              /\ UNCHANGED <<storage, idToken, accessTokenMap, getAccessTokenPromiseMap,
                             refresh, oidc, requests, redirects>>]_vars

\* With a refresh token but no ID token stored, a getAccessToken call and a call
\* of another of the operations have failed and nothing was sent.
C16_Witness ==
    \E t, u \in Tasks :
        /\ IsCall(t, "getAccessToken") /\ Returned(t)
        /\ task[t].ret.code = "not_authenticated"
        /\ task[t].wait = NULL
        /\ IsCall(u, "getIdTokenClaims") \/ IsCall(u, "signOut")
        /\ Returned(u) /\ task[u].ret.code = "not_authenticated"
        /\ storage.idToken = NULL /\ storage.refreshToken = Preloaded
        /\ requests = {} /\ redirects = <<>> /\ oidc.fetches = 0

\* C17: every finished getAccessToken call that was made with an ID token stored,
\* no unexpired token cached for its key and no refresh token stored has thrown
\* not_authenticated, unwrapped, and no refresh-grant request was sent for it; the
\* only calls let off are those that were handed a refresh still in flight.
C17_NoRefreshTokenNotAuthenticated ==
    \A t \in Tasks :
        (/\ IsCall(t, "getAccessToken") /\ Returned(t) /\ task[t].bare
         /\ ~(task[t].wait # t /\ task[t].live)) =>
            /\ task[t].ret = Err("not_authenticated", "")
            /\ RefreshRequestsOf(t) = {}

\* What fails inside the refresh path: the discovery fetch, the refresh-grant
\* request, the verification of a rotated ID token.
RefreshCauses == {"fetch_oidc_config", "fetch_token", "invalid_id_token"}

\* C18: every refresh that was started with a refresh token stored and has failed
\* has the error get_access_token_by_refresh_token_failed with the failure of the
\* discovery fetch, of the refresh-grant request or of the ID-token verification
\* as its cause; every call that waited on it has thrown that error; and no
\* getAccessToken call has one of those failures as its own error.
C18_RefreshFailureWrapped ==
    \A t \in Tasks :
        /\ (IsCall(t, "getAccessToken") /\ Returned(t) /\ task[t].ret.st = "err") =>
               /\ task[t].ret.code \notin RefreshCauses
               /\ task[t].ret.code # "request_failed"
        /\ (IsCall(t, "getAccessToken") /\ task[t].wait = t /\ task[t].live
               /\ refresh[t].st = "rejected") =>
               /\ refresh[t].ret.code = "get_access_token_by_refresh_token_failed"
               /\ refresh[t].ret.cause \in RefreshCauses
               /\ \A u \in Tasks :
                      (Returned(u) /\ task[u].wait = t) => task[u].ret = refresh[t].ret

\* One call failed on the refresh-grant request and another on the verification
\* of the rotated ID token.
C18_Witness ==
    \E t, u \in Tasks :
        /\ IsCall(t, "getAccessToken") /\ Returned(t) /\ task[t].pre
        /\ task[t].ret.cause = "fetch_token"
        /\ IsCall(u, "getAccessToken") /\ Returned(u) /\ task[u].pre
        /\ task[u].ret.cause = "invalid_id_token"

\* The signIn redirects made, and the signIn calls that returned.
SignInRedirectsMade(rs) == {i \in DOMAIN rs : rs[i].kind = "signIn"}
SignInsReturned(tk) ==
    {t \in Tasks : tk[t].op = "signIn" /\ tk[t].pc = "done" /\ tk[t].ret.st = "ok"}

\* C19: the step in which a signIn call makes its redirect adds one URL to the
\* redirects, and after it the storage holds a sign-in session whose state is the
\* state of that URL, whose redirectUri is the one given to signIn and in the URL,
\* and whose codeVerifier is the one the URL's challenge was made from, while no
\* refresh token and no ID token is stored or held; there are as many signIn
\* redirects as signIn calls that returned.
C19_SessionStoredAtRedirect ==
    [][/\ \A t \in Tasks :
             (/\ task[t].pc = "si_challenge"
              /\ task'[t].pc = "done"
              /\ task'[t].ret.st = "ok") =>
                 LET got == signInSessionGet(storage'.signInSession)
                     url == redirects'[Len(redirects')]
                 IN /\ redirects' = Append(redirects, url)
                    /\ url.kind = "signIn"
                    /\ url.redirectUri = task[t].url.base
                    /\ got.kind = "item"
                    /\ got.item.state = url.state
                    /\ got.item.redirectUri = task[t].url.base
                    /\ got.item.codeVerifier = url.codeChallenge
                    /\ storage'.refreshToken = NULL
                    /\ storage'.idToken = NULL
                    /\ idToken' = NULL
       /\ Cardinality(SignInRedirectsMade(redirects')) = Cardinality(SignInsReturned(task'))]_vars

\* A client that had used its stored refresh token has signed in anew: one
\* redirect, its session stored, the tokens gone.
C19_Witness ==
    \E t \in Tasks :
        /\ IsCall(t, "signIn") /\ Returned(t) /\ task[t].ret.st = "ok"
        /\ \E q \in requests : q.refreshToken = Preloaded
        /\ redirects = <<SignInUri(task[t].url.base, t, t)>>
        /\ signInSessionGet(storage.signInSession).item.state = t
        /\ storage.refreshToken = NULL /\ storage.idToken = NULL

C21_IsSignInRedirectedPure ==
    [][\A t \in Tasks :
          (task[t].pc = "idle" /\ task'[t].op = "isSignInRedirected") =>
              LET got == signInSessionGet(storage.signInSession)
                  url == task'[t].url
              IN /\ task'[t].pc = "done"
                 /\ (task'[t].ret = Ok(1)) <=>
                        (got.kind = "item" /\ url.base = got.item.redirectUri)
                 /\ UNCHANGED <<storage, idToken, accessTokenMap, getAccessTokenPromiseMap,
                                refresh, oidc, requests, redirects>>]_vars

\* After a signIn call, isSignInRedirected has returned true for the redirect URI
\* of that call with a query added.
C21_Witness ==
    \E s, r \in Tasks :
        /\ IsCall(s, "signIn") /\ Returned(s) /\ task[s].ret.st = "ok"
        /\ IsCall(r, "isSignInRedirected") /\ Returned(r) /\ task[r].ret = Ok(1)
        /\ task[r].url.code # NULL
        /\ task[r].url.base = task[s].url.base
        /\ signInSessionGet(storage.signInSession).item.state = s

\* C22: in every state the client reaches, whatever calls of its operations have
\* been made, finished or failed, the ID token the client holds is the ID token in
\* storage, and isAuthenticated is true exactly when the storage holds an ID token.
C22_AuthenticatedIffIdTokenStored ==
    /\ idToken = storage.idToken
    /\ isAuthenticated <=> storage.idToken # NULL

\* One call has failed and a handleSignInCallback call has stored its ID token in
\* place of the one the client was constructed with.
C22_Witness ==
    \E t, u \in Tasks :
        /\ Returned(u) /\ task[u].ret.st = "err"
        /\ IsCall(t, "handleSignInCallback") /\ Returned(t) /\ task[t].ret.st = "ok"
        /\ storage.idToken = t
        /\ isAuthenticated

\* The step in which task t writes item through the setter, and the step in
\* which it reads through the getter.
Writes(t, item) ==
    task[t].pc = "idle" /\ task'[t].op = "setSignInSession" /\ task'[t].sess = item
Reads(t) ==
    task[t].pc = "idle" /\ task'[t].op = "getSignInSession"

\* C23: a write of a session {redirectUri, codeVerifier, state} through the setter
\* leaves a storage item that the getter reads as a session equal to it; a write
\* of null leaves none, whether or not a session was stored before the write;
\* and a read made while the storage holds what a write of a session left returns
\* that session, a read made while it holds what a write of null left returns
\* null, and a read changes nothing.
C23_SessionRoundTrip ==
    [][/\ \A t \in Tasks, item \in SessionItems :
             Writes(t, item) =>
                 /\ signInSessionGet(storage'.signInSession).kind = "item"
                 /\ signInSessionGet(storage'.signInSession).item = item
       /\ \A t \in Tasks :
             Writes(t, NoItem) =>
                 /\ task'[t].ret = Ok(NULL)
                 /\ signInSessionGet(storage'.signInSession).kind = "null"
       /\ \A t \in Tasks :
             Reads(t) =>
                 /\ \A item \in SessionItems :
                        storage = signInSessionSet(storage, item) =>
                            (task'[t].sess = item /\ task'[t].ret = Ok(1))
                 /\ storage = signInSessionSet(storage, NoItem) =>
                        (task'[t].sess = NoItem /\ task'[t].ret = Ok(0))
                 /\ UNCHANGED storage]_vars

\* A session was written and read back equal, and a write of null has then left
\* no session in storage.
C23_Witness ==
    /\ IsCall(1, "setSignInSession") /\ task[1].sess \in SessionItems
    /\ IsCall(2, "getSignInSession")
    /\ task[2].sess = task[1].sess /\ task[2].ret = Ok(1)
    /\ IsCall(3, "setSignInSession") /\ task[3].sess = NoItem
    /\ signInSessionGet(storage.signInSession).kind = "null"

\* The stored text is there and lacks one of the three members of a session.
Malformed(json) ==
    /\ json # <<>>
    /\ \E key \in {"redirectUri", "codeVerifier", "state"} :
           \A i \in 1..Len(json) : json[i][1] # key

\* C24: a read of a stored session that is there but unparsable or without one of
\* redirectUri, codeVerifier and state throws sign_in_session.invalid with the
\* error of the parse or of the validation as its cause and yields no session; a
\* read returns null only when nothing is stored; and a call of isSignInRedirected
\* or handleSignInCallback made on such a stored session throws
\* sign_in_session.invalid with that cause, not sign_in_session.not_found.
C24_MalformedSessionInvalid ==
    [][\A t \in Tasks :
          /\ (Reads(t) /\ Malformed(storage.signInSession)) =>
                 /\ task'[t].ret.st = "err"
                 /\ task'[t].ret.code = "sign_in_session.invalid"
                 /\ task'[t].ret.cause \in {"SyntaxError", "StructError"}
                 /\ task'[t].sess = NoItem
          /\ (Reads(t) /\ task'[t].ret = Ok(0)) => storage.signInSession = <<>>
          /\ (/\ task[t].pc = "idle"
              /\ task'[t].op \in {"isSignInRedirected", "handleSignInCallback"}
              /\ Malformed(storage.signInSession)) =>
                 /\ task'[t].pc = "done"
                 /\ task'[t].ret.code = "sign_in_session.invalid"
                 /\ task'[t].ret.cause \in {"SyntaxError", "StructError"}
                 /\ UNCHANGED <<storage, requests, oidc>>]_vars

\* On a stored session without its state, a read, an isSignInRedirected call and a
\* handleSignInCallback call have each thrown sign_in_session.invalid.
C24_Witness ==
    /\ storage.signInSession = MalformedSession
    /\ \A op \in {"getSignInSession", "isSignInRedirected", "handleSignInCallback"} :
           \E t \in Tasks :
               /\ IsCall(t, op) /\ Returned(t)
               /\ task[t].ret = Err("sign_in_session.invalid", "StructError")

\* The members of a list, and the first place of a member in it.
Members(list) == {list[i] : i \in 1..Len(list)}
FirstAt(list, x) == CHOOSE i \in 1..Len(list) : list[i] = x /\ \A j \in 1..(i - 1) : list[j] # x

\* C25: whatever scope list the caller gave the constructor, the configured scopes
\* begin with openid, offline_access and profile, no scope is in them twice, every
\* scope of the caller is in them, and the scopes after the reserved ones are
\* scopes of the caller in the order the caller gave them.
C25_ReservedScopesThenCallers ==
    \A config \in Configs :
        logtoConfig = constructor(config) =>
            LET got == logtoConfig.scopes
                rest == SubSeq(got, Len(ReservedScope) + 1, Len(got))
            IN /\ Len(got) >= Len(ReservedScope)
               /\ SubSeq(got, 1, Len(ReservedScope)) = ReservedScope
               /\ \A i, j \in 1..Len(got) : i # j => got[i] # got[j]
               /\ Members(config.scopes) \subseteq Members(got)
               /\ Members(rest) \subseteq Members(config.scopes)
               /\ \A i, j \in 1..Len(rest) :
                      i < j => FirstAt(config.scopes, rest[i]) < FirstAt(config.scopes, rest[j])

\* The caller gave openid and one scope that is not reserved: the configured
\* scopes are the three reserved ones and that scope.
C25_Witness ==
    \E config \in Configs :
        /\ logtoConfig = constructor(config)
        /\ Len(config.scopes) = 2
        /\ config.scopes[1] = <<"openid">>
        /\ config.scopes[2] = <<"foo">>
        /\ logtoConfig.scopes = Append(ReservedScope, <<"foo">>)

\* The values a query carries for a key, in order.
ParamValues(params, key) ==
    LET sel == SelectSeq(params, LAMBDA kv : kv[1] = key)
    IN [i \in 1..Len(sel) |-> sel[i][2]]

\* C26: the URL a signIn call hands to handleRedirect carries, whatever the
\* configuration, code_challenge_method=S256 and response_type=code once each,
\* the configured client id, the redirect URI given to the call, the call's code
\* challenge and the state of the session it stored, one resource parameter for
\* every configured resource in the order of the configuration, and
\* prompt=consent when the configuration given to the constructor had no prompt.
C26_SignInUriParameters ==
    [][\A t \in Tasks :
          (/\ task[t].pc = "si_challenge"
           /\ task'[t].pc = "done"
           /\ task'[t].ret.st = "ok") =>
              LET params == redirects'[Len(redirects')].params
                  session == signInSessionGet(storage'.signInSession).item
              IN /\ Len(redirects') = Len(redirects) + 1
                 /\ ParamValues(params, "code_challenge_method") = <<"S256">>
                 /\ ParamValues(params, "response_type") = <<"code">>
                 /\ ParamValues(params, "client_id") = <<logtoConfig.appId>>
                 /\ ParamValues(params, "redirect_uri") = <<task[t].url.base>>
                 /\ ParamValues(params, "code_challenge") = <<session.codeVerifier>>
                 /\ ParamValues(params, "state") = <<session.state>>
                 /\ ParamValues(params, "resource") = logtoConfig.resources
                 /\ \A config \in Configs :
                        (logtoConfig = constructor(config) /\ config.prompt = "") =>
                            ParamValues(params, "prompt") = <<"consent">>]_vars

\* A client configured with two resources and no prompt has made one signIn
\* redirect: the URL carries the two resources in their order, prompt=consent and
\* the S256 method.
C26_Witness ==
    /\ logtoConfig.resources = <<"b", "a">>
    /\ logtoConfig.prompt = "consent"
    /\ Len(redirects) = 1
    /\ redirects[1].kind = "signIn"
    /\ ParamValues(redirects[1].params, "resource") = <<"b", "a">>
    /\ ParamValues(redirects[1].params, "prompt") = <<"consent">>
    /\ ParamValues(redirects[1].params, "code_challenge_method") = <<"S256">>

\* C27: every refresh-grant request sent carries the resource of the
\* getAccessToken call whose refresh sent it, and carries the scope override
\* offline_access when that call was given a resource and no scope override when
\* it was given none.
C27_ScopeOverrideOnlyWithResource ==
    \A q \in requests :
        q.grant = "refresh_token" =>
            /\ IsCall(q.by, "getAccessToken")
            /\ q.resource = task[q.by].resource
            /\ task[q.by].resource # NoResource => q.scopes = <<"offline_access">>
            /\ task[q.by].resource = NoResource => q.scopes = <<>>

\* One request was sent for a resource with the override and one for no resource
\* without it.
C27_Witness ==
    \E q, r \in requests :
        /\ q.grant = "refresh_token" /\ r.grant = "refresh_token"
        /\ q.resource = "a" /\ q.scopes = <<"offline_access">>
        /\ r.resource = NoResource /\ r.scopes = <<>>

\* The step in which the token endpoint answers the request of refresh p with
\* tokens, and the refresh-grant requests a step sends.
RefreshAnswered(p) ==
    refresh[p].st = "fetch" /\ refresh'[p].st \in {"verify", "resolved"}
RefreshRequestsSent == {q \in requests' \ requests : q.grant = "refresh_token"}

\* C28: when the token endpoint answers a refresh with tokens, the refresh token
\* of that answer, or none if the answer had none, takes the place of the stored
\* one; no other step of a getAccessToken call changes the stored refresh token;
\* and every refresh-grant request sent, for whichever key, carries the refresh
\* token stored at the moment it is sent.
C28_RotatedRefreshTokenUsedNext ==
    [][/\ \A p \in Tasks :
             RefreshAnswered(p) => storage'.refreshToken \in {p, NULL}
       /\ storage'.refreshToken # storage.refreshToken =>
             \E p \in Tasks : RefreshAnswered(p)
       /\ \A q \in RefreshRequestsSent : q.refreshToken = storage.refreshToken]_vars

\* A refresh for one key was answered with a rotated refresh token, and the
\* request of a later refresh for the other key carried that token, which is
\* still the one stored.
C28_Witness ==
    \E q, r \in requests :
        /\ q.grant = "refresh_token" /\ r.grant = "refresh_token"
        /\ q.refreshToken = Preloaded
        /\ r.refreshToken = q.by
        /\ r.resource # q.resource
        /\ storage.refreshToken = q.by

VerifiesIdToken(t) == refresh[t].st = "verify" \/ task[t].pc = "cb_verify"

\* C30: the client creates at most one remote JWK set, however many ID-token
\* verifications of refreshes and of handleSignInCallback calls need the keys and
\* however they overlap, and every call that is verifying an ID token has the one
\* set.
C30_JwkSetCreatedOnce ==
    /\ jwks.created <= 1
    /\ \A t \in Tasks : VerifiesIdToken(t) => jwks.created = 1

\* A refresh and a handleSignInCallback call are verifying their ID tokens at the
\* same time, on one JWK set.
C30_Witness ==
    \E t, u \in Tasks :
        /\ refresh[t].st = "verify"
        /\ task[u].pc = "cb_verify"
        /\ jwks.created = 1

\* The refresh-grant requests sent so far.
RefreshRequests == {q \in requests : q.grant = "refresh_token"}

\* C31: no two refresh-grant requests of the client, sent for the same key or for
\* different keys, carry the same refresh token.
C31_RefreshTokenSentOnce ==
    \A q, r \in RefreshRequests : q.by # r.by => q.refreshToken # r.refreshToken

\* C32: when a getAccessToken call has failed with
\* get_access_token_by_refresh_token_failed, the refresh it waited on has put no
\* access token in the cache and has not replaced the stored refresh token, also
\* when the token endpoint answered and the rotated ID token failed verification.
C32_FailedRefreshLeavesState ==
    \A t \in Tasks :
        (/\ IsCall(t, "getAccessToken") /\ Returned(t)
         /\ task[t].ret.code = "get_access_token_by_refresh_token_failed") =>
            /\ \A k \in Keys : accessTokenMap[k].token # task[t].wait
            /\ storage.refreshToken # task[t].wait

\* C33: when the client has made only getAccessToken and signOut calls, a signOut
\* call has returned without an error and every call has settled, then neither a
\* refresh token nor an ID token is stored and the access-token cache is empty.
C33_SignOutOutlastsRefresh ==
    (/\ \A t \in Tasks : task[t].op \in {"none", "getAccessToken", "signOut"}
     /\ \A t \in Tasks : task[t].op # "none" => Returned(t)
     /\ SignOutsReturned(task) # {}) =>
        /\ storage.refreshToken = NULL
        /\ storage.idToken = NULL
        /\ idToken = NULL
        /\ accessTokenMap = [k \in Keys |-> NoEntry]

\* C34: once a signIn call and a handleSignInCallback call made with the callback
\* of that signIn's session have both returned without an error, no resource has
\* an entry in the cache that getAccessToken would return (the client holds an ID
\* token and the entry is unexpired) and whose access token was in the cache when
\* the signIn was called.
C34_NoTokenOfPreviousSignIn ==
    \A s, c \in Tasks :
        (/\ IsCall(s, "signIn") /\ Returned(s) /\ task[s].ret.st = "ok"
         /\ IsCall(c, "handleSignInCallback") /\ Returned(c) /\ task[c].ret.st = "ok"
         /\ task[c].url.state = s) =>
            \A r \in Resources :
                LET at == accessTokenMap[buildAccessTokenKey(r)]
                IN (idToken # NULL /\ CachedValid(at)) => at.token \notin task[s].cached

\* The authorization-code exchange requests sent so far.
CodeRequests == {q \in requests : q.grant = "authorization_code"}

\* C35: no two handleSignInCallback calls have sent an exchange request for the
\* same sign-in session, the session being known by its code verifier.
C35_OneExchangePerSession ==
    \A q, r \in CodeRequests : q.by # r.by => q.codeVerifier # r.codeVerifier

\* A step of the signIn call t other than the one that makes its redirect.
SignInStepWithoutRedirect(t) ==
    /\ task'[t].op = "signIn"
    /\ task'[t] # task[t]
    /\ ~(task'[t].pc = "done" /\ task'[t].ret.st = "ok")

\* C36: every step of a signIn call but the one that makes its redirect, and so
\* every step of a signIn call that fails on the discovery fetch or on the code
\* challenge, leaves the storage (sign-in session, refresh token, ID token), the
\* ID token held and the redirects as they are; a signIn call that has failed has
\* made no redirect and has its state in no stored session.
C36_FailedSignInChangesNothing ==
    [][\A t \in Tasks :
          /\ SignInStepWithoutRedirect(t) => UNCHANGED <<storage, idToken, redirects>>
          /\ (SignInStepWithoutRedirect(t) /\ task'[t].pc = "done") =>
                /\ task'[t].ret.st = "err"
                /\ \A i \in DOMAIN redirects' : redirects'[i].state # t
                /\ signInSessionGet(storage'.signInSession).item.state # t]_vars

\* A signIn call made while a sign-in session and both tokens were stored has
\* failed on the code challenge: the session and the tokens are still stored and
\* no redirect was made.
C36_Witness ==
    \E t \in Tasks :
        /\ IsCall(t, "signIn") /\ Returned(t)
        /\ task[t].ret.code = "crypto_subtle_unavailable"
        /\ storage = [idToken |-> Preloaded, refreshToken |-> Preloaded,
                      signInSession |-> PreloadedSession]
        /\ idToken = Preloaded
        /\ redirects = <<>>

\* C37: the step in which the token endpoint answers a refresh with tokens leaves
\* a refresh token stored: the one of the answer, or, when the answer carries
\* none, the one that was stored before.
C37_RefreshKeepsRefreshToken ==
    [][\A p \in Tasks :
          (RefreshAnswered(p) /\ storage.refreshToken # NULL) =>
              storage'.refreshToken \in {p, storage.refreshToken}]_vars

\* The step in which the getAccessToken() call of the getContext call t fails:
\* it throws not_authenticated at once, or the promise it waits on is rejected.
GetContextTokenFails(t) ==
    /\ task'[t] # task[t]
    /\ \/ task[t].pc = "gc_claims" /\ idToken = NULL
       \/ task[t].pc \in {"gc_await", "gc_join"} /\ refresh[task[t].wait].st = "rejected"

\* C39: a getContext(true) call that finds no ID token returns
\* { isAuthenticated: false } in a step that starts no refresh, sends no request
\* and reads no claims; when its getAccessToken() call fails it returns exactly
\* { isAuthenticated: false }; when that call has succeeded and the client still
\* holds an ID token it returns isAuthenticated true with the claims and the
\* access token; it throws only from the first read of the claims, never from
\* getAccessToken(); and no context it returns has isAuthenticated true without
\* an access token and claims.
C39_GetContextWithAccessToken ==
    [][\A t \in Tasks :
          /\ (task[t].pc = "gc_auth" /\ task[t].ctx.isAuthenticated = 0
                 /\ task'[t] # task[t]) =>
                /\ task'[t].pc = "done" /\ task'[t].ret = Ok(NULL)
                /\ task'[t].ctx = NoContext
                /\ UNCHANGED <<storage, idToken, accessTokenMap, getAccessTokenPromiseMap,
                               refresh, oidc, requests>>
          /\ GetContextTokenFails(t) =>
                /\ task'[t].pc = "done" /\ task'[t].ret = Ok(NULL)
                /\ task'[t].ctx = NoContext
          /\ (task[t].pc = "gc_token" /\ task'[t] # task[t] /\ idToken # NULL) =>
                /\ task'[t].pc = "done" /\ task'[t].ret = Ok(NULL)
                /\ task'[t].ctx.isAuthenticated = 1
                /\ task'[t].ctx.claims = idToken
                /\ task'[t].ctx.accessToken = task[t].ctx.accessToken
                /\ task'[t].ctx.accessToken # NULL
          /\ (task'[t].op = "getContext" /\ task'[t].ret.st = "err"
                 /\ task[t].ret.st # "err") => task[t].pc = "gc_auth"
          /\ (task'[t].op = "getContext" /\ task'[t].pc = "done"
                 /\ task'[t].ctx.isAuthenticated = 1) =>
                /\ task'[t].ctx.accessToken # NULL
                /\ task'[t].ctx.claims # NULL]_vars

\* A getContext(true) call of an authenticated client started a refresh whose
\* request failed, and has returned { isAuthenticated: false } while the ID token
\* is still held.
C39_Witness ==
    \E t \in Tasks :
        /\ IsCall(t, "getContext") /\ Returned(t)
        /\ task[t].wait = t
        /\ refresh[t].ret = WrapRefreshError("fetch_token")
        /\ task[t].ret = Ok(NULL)
        /\ task[t].ctx = NoContext
        /\ idToken = Preloaded

====
